---- MODULE Spec2Model ----
(***************************************************************************)
(* The receipt ledger of src/app1.py (and the earlier variant src/app2.py) *)
(* as a state machine.  One step is one run of the Streamlit script: the   *)
(* handler of the widget that triggered it, then the chat tab's render.    *)
(*                                                                         *)
(* Numbers.  The program computes with Python floats.  The model computes  *)
(* with exact rationals [n, d] in lowest terms (d > 0), so a sum that the  *)
(* program gets up to the rounding of IEEE doubles the model gets exactly. *)
(*                                                                         *)
(* Text.  A text is a sequence of atoms: single characters where the       *)
(* program looks into the text (strip, upper, date and number parsing),    *)
(* or one word where it never does (names, categories).                    *)
(***************************************************************************)
EXTENDS Integers, Sequences, FiniteSets, TLC

VARIABLES
    variant,               \* which script runs the session: "app1" or "app2"
    all_receipts_items,    \* st.session_state.all_receipts_items
    all_receipts_summary,  \* st.session_state.all_receipts_summary
    chat_history,          \* st.session_state.chat_history
    last_data_hash,        \* st.session_state.last_data_hash (may be unset)
    csv_load_triggered,    \* st.session_state.csv_load_triggered
    uploaded_file,         \* the receipt_uploader widget's file
    uploaded_csv_file,     \* the csv_uploader widget's file
    EXCHANGE_RATES,        \* the table get_exchange_rates() serves this run
    today,                 \* datetime.date.today()
    now,                   \* pd.Timestamp.now().timestamp()
    last,                  \* what the latest script run did
    analyses,              \* the locals of each analysis that stored a receipt
    call                   \* the latest call of a helper on its own: arguments, result

vars == <<variant, all_receipts_items, all_receipts_summary, chat_history,
          last_data_hash, csv_load_triggered, uploaded_file, uploaded_csv_file,
          EXCHANGE_RATES, today, now, last, analyses, call>>

----------------------------------------------------------------------------
(* Float arithmetic, exact. *)

Abs(x) == IF x < 0 THEN -x ELSE x

RECURSIVE GCD(_, _)
GCD(a, b) == IF b = 0 THEN a ELSE GCD(b, a % b)

Q(n, d) ==
    LET g == GCD(Abs(n), Abs(d))
        s == IF d < 0 THEN -1 ELSE 1
    IN  [n |-> s * (n \div g), d |-> s * (d \div g)]

QInt(n) == [n |-> n, d |-> 1]

QZero == QInt(0)

QNeg(a) == [n |-> -a.n, d |-> a.d]

QAdd(a, b) ==
    LET g == GCD(a.d, b.d)
        l == (a.d \div g) * b.d
    IN  Q(a.n * (l \div a.d) + b.n * (l \div b.d), l)

QSub(a, b) == QAdd(a, QNeg(b))

QMul(a, b) ==
    LET g1 == GCD(Abs(a.n), b.d)
        g2 == GCD(Abs(b.n), a.d)
    IN  [n |-> (a.n \div g1) * (b.n \div g2), d |-> (a.d \div g2) * (b.d \div g1)]

\* a / b for b # 0
QDiv(a, b) == QMul(a, IF b.n < 0 THEN [n |-> -b.d, d |-> -b.n] ELSE [n |-> b.d, d |-> b.n])

QAbs(a) == [n |-> Abs(a.n), d |-> a.d]

QLess(a, b) == QSub(a, b).n < 0

QPos(a) == a.n > 0

RECURSIVE QSum(_)
QSum(s) == IF s = <<>> THEN QZero ELSE QAdd(s[1], QSum(Tail(s)))

SeqMap(Op(_), s) == [i \in 1..Len(s) |-> Op(s[i])]

----------------------------------------------------------------------------
(* Text. *)

Digits == <<"0", "1", "2", "3", "4", "5", "6", "7", "8", "9">>

IsDigit(c) == \E i \in 1..10 : Digits[i] = c

DigitVal(c) == (CHOOSE i \in 1..10 : Digits[i] = c) - 1

IsSpace(c) == c = " "

\* str.strip()
RECURSIVE LStrip(_)
LStrip(t) == IF t # <<>> /\ IsSpace(t[1]) THEN LStrip(Tail(t)) ELSE t

RECURSIVE RStrip(_)
RStrip(t) ==
    IF t # <<>> /\ IsSpace(t[Len(t)]) THEN RStrip(SubSeq(t, 1, Len(t) - 1)) ELSE t

Strip(t) == RStrip(LStrip(t))

\* str.upper(), on the letters the model's currency codes are written with
UpperChar(c) ==
    CASE c = "k" -> "K" [] c = "r" -> "R" [] c = "w" -> "W"
      [] c = "u" -> "U" [] c = "s" -> "S" [] c = "d" -> "D"
      [] c = "e" -> "E" [] c = "j" -> "J" [] c = "p" -> "P" [] c = "y" -> "Y"
      [] OTHER -> c

Upper(t) == SeqMap(UpperChar, t)

----------------------------------------------------------------------------
(* Dates: datetime.date, strftime('%Y-%m-%d') and the strict parse. *)

IsLeap(y) == (y % 4 = 0 /\ y % 100 # 0) \/ y % 400 = 0

DaysIn(y, m) ==
    IF m = 2 THEN (IF IsLeap(y) THEN 29 ELSE 28)
    ELSE IF m \in {4, 6, 9, 11} THEN 30 ELSE 31

NextDay(dt) ==
    IF dt.d < DaysIn(dt.y, dt.m) THEN [dt EXCEPT !.d = dt.d + 1]
    ELSE IF dt.m < 12 THEN [y |-> dt.y, m |-> dt.m + 1, d |-> 1]
    ELSE [y |-> dt.y + 1, m |-> 1, d |-> 1]

\* the date of the session's first run
StartDate == [y |-> 2024, m |-> 12, d |-> 31]

RECURSIVE DateOf(_)
DateOf(k) == IF k = 0 THEN StartDate ELSE NextDay(DateOf(k - 1))

Digit(n) == Digits[n + 1]

Pad2(n) == <<Digit(n \div 10), Digit(n % 10)>>

Pad4(n) == <<Digit(n \div 1000), Digit((n \div 100) % 10), Digit((n \div 10) % 10), Digit(n % 10)>>

\* date.strftime('%Y-%m-%d')
Strftime(dt) == Pad4(dt.y) \o <<"-">> \o Pad2(dt.m) \o <<"-">> \o Pad2(dt.d)

RECURSIVE NumeralVal(_)
NumeralVal(t) ==
    IF t = <<>> THEN 0 ELSE 10 * NumeralVal(SubSeq(t, 1, Len(t) - 1)) + DigitVal(t[Len(t)])

AllDigits(t) == t # <<>> /\ \A i \in 1..Len(t) : IsDigit(t[i])

\* pd.to_datetime(text, format='%Y-%m-%d', errors='raise').date(): the date, or
\* ok = FALSE where the code lands in except (ValueError, TypeError): the text does
\* not match, is empty (NaT.date() raises) or is outside the Timestamp range
ParseDate(t) ==
    LET shaped == /\ Len(t) = 10
                  /\ t[5] = "-" /\ t[8] = "-"
                  /\ AllDigits(SubSeq(t, 1, 4))
                  /\ AllDigits(SubSeq(t, 6, 7))
                  /\ AllDigits(SubSeq(t, 9, 10))
        y == NumeralVal(SubSeq(t, 1, 4))
        m == NumeralVal(SubSeq(t, 6, 7))
        d == NumeralVal(SubSeq(t, 9, 10))
    IN  IF shaped /\ y >= 1678 /\ y <= 2261 /\ m >= 1 /\ m <= 12
                  /\ d >= 1 /\ d <= DaysIn(y, m)
        THEN [ok |-> TRUE, y |-> y, m |-> m, d |-> d]
        ELSE [ok |-> FALSE, y |-> 0, m |-> 0, d |-> 0]

----------------------------------------------------------------------------
(* JSON as json.loads returns it.  A scalar is [k, n, s]: k its kind,      *)
(* n its number when k = "num", s its text when k = "str";                 *)
(* k = "absent" stands for a key the object does not have.                 *)

JAbsent == [k |-> "absent", n |-> QZero, s |-> <<>>]
JNull == [k |-> "null", n |-> QZero, s |-> <<>>]
JNum(x) == [k |-> "num", n |-> QInt(x), s |-> <<>>]
JStr(t) == [k |-> "str", n |-> QZero, s |-> t]

NaN == [nan |-> TRUE, v |-> QZero]
Num(q) == [nan |-> FALSE, v |-> q]

\* the number a text is read as by pd.to_numeric: integer numerals, else NaN
ParseNumber(t) ==
    LET u == Strip(t)
        neg == u # <<>> /\ u[1] = "-"
        body == IF neg THEN Tail(u) ELSE u
    IN  IF AllDigits(body)
        THEN Num(QInt(IF neg THEN -NumeralVal(body) ELSE NumeralVal(body)))
        ELSE NaN

\* pd.to_numeric(value, errors='coerce') of one cell
to_numeric(v) ==
    CASE v.k = "num" -> Num(v.n)
      [] v.k = "str" -> ParseNumber(v.s)
      [] OTHER -> NaN

\* Series.fillna(x)
fillna(c, x) == IF c.nan THEN x ELSE c.v

\* data[key] in the place of data.get(key, default)
GetNoDefault(v, default) == v

\* dict.get(key, default) with the object's field already looked up
Get(v, default) == IF v.k = "absent" THEN default ELSE v

safe_get_amount(data, key) ==
    LET value == Get(data[key], JNum(0))
        numeric_value == to_numeric(value)
    IN  IF ~numeric_value.nan THEN numeric_value.v ELSE QZero

----------------------------------------------------------------------------
(* Currency tables and conversion. *)

KRW == <<"K", "R", "W">>
USD == <<"U", "S", "D">>
EUR == <<"E", "U", "R">>
JPY == <<"J", "P", "Y">>

\* rates.get(key, default)
RateGet(rates, key, default) == IF key \in DOMAIN rates THEN rates[key] ELSE default

FALLBACK_RATES ==
    (KRW :> QInt(1)) @@ (USD :> QInt(1350)) @@ (EUR :> QInt(1450)) @@ (JPY :> Q(920, 100))

\* a conversion that looks the code up without the home rate as its default
convert_to_krw_NoDefault(amount, currency, rates) ==
    LET rate == RateGet(rates, Strip(Upper(currency)), QZero)
    IN  IF rate = QZero
        THEN QMul(amount, RateGet(rates, USD, QInt(1300)))
        ELSE QMul(amount, rate)

convert_to_krw(amount, currency, rates) ==
    LET currency_upper == Strip(Upper(currency))
        rate == RateGet(rates, currency_upper, RateGet(rates, KRW, QInt(1)))
    IN  IF rate = QZero
        THEN QMul(amount, RateGet(rates, USD, QInt(1300)))
        ELSE QMul(amount, rate)

----------------------------------------------------------------------------
(* The extraction service's answer.  A response is None or a text; a text  *)
(* is a sequence of tokens: the opening fence ```json, a closing fence     *)
(* ```, whitespace, other prose, or the text of one JSON document.  A      *)
(* document is an object (the receipt), a list or null.                    *)

NoDoc == [kind |-> "none"]

TokFenceJson == [t |-> "fence_json", doc |-> NoDoc]
TokFence == [t |-> "fence", doc |-> NoDoc]
TokWs == [t |-> "ws", doc |-> NoDoc]
TokProse == [t |-> "prose", doc |-> NoDoc]
TokDoc(doc) == [t |-> "doc", doc |-> doc]

\* text.strip()
RECURSIVE TokLStripWs(_)
TokLStripWs(x) == IF x # <<>> /\ x[1].t = "ws" THEN TokLStripWs(Tail(x)) ELSE x

RECURSIVE TokRStripWs(_)
TokRStripWs(x) ==
    IF x # <<>> /\ x[Len(x)].t = "ws" THEN TokRStripWs(SubSeq(x, 1, Len(x) - 1)) ELSE x

TokStrip(x) == TokRStripWs(TokLStripWs(x))

\* text.lstrip("```json") removes every leading character that is one of ` j s o n:
\* both fences go, and the n of a document that is the literal null goes with them
RECURSIVE LStripFence(_)
LStripFence(x) ==
    IF x = <<>> THEN x
    ELSE IF x[1].t \in {"fence_json", "fence"} THEN LStripFence(Tail(x))
    ELSE IF x[1].t = "doc" /\ x[1].doc.kind = "null" THEN <<TokProse>> \o Tail(x)
    ELSE x

\* text.rstrip("```") removes every trailing backquote
RECURSIVE RStripFence(_)
RStripFence(x) ==
    IF x # <<>> /\ x[Len(x)].t = "fence" THEN RStripFence(SubSeq(x, 1, Len(x) - 1)) ELSE x

\* JSON Cleaning Logic of app1
CleanApp1(text) ==
    LET c0 == TokStrip(text)
        c1 == IF c0 # <<>> /\ c0[1].t = "fence_json" THEN LStripFence(c0) ELSE c0
        c2 == IF c1 # <<>> /\ c1[Len(c1)].t = "fence" THEN RStripFence(c1) ELSE c1
    IN  TokStrip(c2)

\* Defense logic of app2: only a text that opens with the fence is touched
CleanApp2(text) ==
    IF TokStrip(text) # <<>> /\ TokStrip(text)[1].t = "fence_json"
    THEN TokStrip(RStripFence(LStripFence(TokStrip(text))))
    ELSE text

\* json.loads: the document, or ok = FALSE for json.JSONDecodeError
json_loads(x) ==
    LET y == TokStrip(x)
    IN  IF Len(y) = 1 /\ y[1].t = "doc"
        THEN [ok |-> TRUE, doc |-> y[1].doc]
        ELSE [ok |-> FALSE, doc |-> NoDoc]

----------------------------------------------------------------------------
(* pd.DataFrame(receipt_data['items']): an item is a sequence of           *)
(* [key, val] pairs in the order of the JSON object.                       *)

HasKey(item, key) == \E i \in 1..Len(item) : item[i].key = key

Cell(item, key) ==
    IF HasKey(item, key)
    THEN item[CHOOSE i \in 1..Len(item) : item[i].key = key].val
    ELSE JAbsent

RECURSIVE AppendNew(_, _)
AppendNew(cols, item) ==
    IF item = <<>> THEN cols
    ELSE AppendNew(IF \E j \in 1..Len(cols) : cols[j] = item[1].key
                   THEN cols ELSE Append(cols, item[1].key),
                   Tail(item))

\* the frame's columns: the keys in the order they are first met
RECURSIVE Columns(_, _)
Columns(cols, items) ==
    IF items = <<>> THEN cols ELSE Columns(AppendNew(cols, Head(items)), Tail(items))

----------------------------------------------------------------------------
(* The upload pipeline of app1 (tab1, "Start Receipt Analysis").           *)

\* geocode_address's fallback (Seoul center) and any other answer of the provider
SeoulCenter == [lat |-> "37.5665", lon |-> "126.9780"]
Elsewhere == [lat |-> "35.1796", lon |-> "129.0756"]

Seoul == <<"Seoul">>
NA == JStr(<<"N/A">>)

NoSummary == [id |-> <<>>]

\* the locals of a run that stored nothing
Blank(status, called) ==
    [status |-> status, called |-> called,
     total_amount |-> QZero, discount_amount |-> QZero,
     items_df |-> <<>>, edited_df |-> <<>>, summary |-> NoSummary]

\* .get(key, '').strip() raises AttributeError unless the value is a text
IsText(v) == Get(v, JStr(<<>>)).k = "str"

StrippedText(v) == Strip(Get(v, JStr(<<>>)).s)

\* the override with the tolerance itself counted as a difference
OverridesTotalAtTolerance(calculated_final_total, total_amount) ==
    /\ ~QLess(QAbs(QSub(calculated_final_total, total_amount)), QInt(100))
    /\ QPos(calculated_final_total)

\* the override of the reported total (Amount Validation and Override)
OverridesTotal(calculated_final_total, total_amount) ==
    /\ QLess(QInt(100), QAbs(QSub(calculated_final_total, total_amount)))
    /\ QPos(calculated_final_total)

\* the allocation made for the first receipt of a ledger only
AllocatesOnEmptyLedger(total_discount, total_item_original) ==
    QPos(total_discount) /\ QPos(total_item_original) /\ all_receipts_items = <<>>

\* an allocation that stops at a discount above the sum of the items
AllocatesWithinGross(total_discount, total_item_original) ==
    /\ QPos(total_discount) /\ QPos(total_item_original)
    /\ ~QLess(total_item_original, total_discount)

\* an allocation of any discount that is not 0, negative ones too
AllocatesAnyDiscount(total_discount, total_item_original) ==
    total_discount # QZero /\ QPos(total_item_original)

\* whether the discount is spread over the items (Discount Allocation Logic)
Allocates(total_discount, total_item_original) ==
    QPos(total_discount) /\ QPos(total_item_original)

\* the allocation cut to whole units
DiscountAppliedWhole(gross, total_discount, total_item_original) ==
    LET exact == QMul(gross, QDiv(total_discount, total_item_original))
    IN  QInt(exact.n \div exact.d)

\* items_df['Total Spend Original'] * discount_rate, with
\* discount_rate = total_discount / total_item_original
DiscountApplied(gross, total_discount, total_item_original) ==
    QMul(gross, QDiv(total_discount, total_item_original))

\* the total without the tip
FinalTotalKrwWithoutTip(krw_amounts, krw_tip_total) == QSum(krw_amounts)

\* edited_df['KRW Total Spend'].sum() + krw_tip_total
FinalTotalKrw(krw_amounts, krw_tip_total) == QAdd(QSum(krw_amounts), krw_tip_total)

\* st.data_editor returns the frame it is given: it is built in the run of the
\* button click, before any edit can exist, and no later run reaches this code
data_editor(rows) == rows

\* a row of pd.DataFrame(receipt_data['items']) under the four column names,
\* prices and quantities made numbers
ItemRow(item, cols) ==
    [Item_Name |-> Cell(item, cols[1]),
     Unit_Price |-> fillna(to_numeric(Cell(item, cols[2])), QInt(0)),
     Quantity |-> fillna(to_numeric(Cell(item, cols[3])), QInt(1)),
     AI_Category |-> Cell(item, cols[4])]

ItemsFrame(items, cols) == [i \in 1..Len(items) |-> ItemRow(items[i], cols)]

\* items_df['Unit Price'] * items_df['Quantity']
Gross(r) == QMul(r.Unit_Price, r.Quantity)

\* calculated_original_total, and total_item_original
TotalSpendOriginal(raw_df) == QSum(SeqMap(Gross, raw_df))

\* total_amount after the override
FinalTotalAmount(raw_df, total_discount, total_amount) ==
    LET calculated_final_total == QSub(TotalSpendOriginal(raw_df), total_discount)
    IN  IF OverridesTotal(calculated_final_total, total_amount)
        THEN calculated_final_total ELSE total_amount

\* a row with 'Total Spend Original', 'Discount Applied' and 'Total Spend'
AllocatedRow(r, allocate, total_discount, total_item_original) ==
    LET applied == IF allocate
                   THEN DiscountApplied(Gross(r), total_discount, total_item_original)
                   ELSE QZero
    IN  [Item_Name |-> r.Item_Name, Unit_Price |-> r.Unit_Price,
         Quantity |-> r.Quantity, AI_Category |-> r.AI_Category,
         Total_Spend_Original |-> Gross(r),
         Discount_Applied |-> applied,
         Total_Spend |-> IF allocate THEN QSub(Gross(r), applied) ELSE Gross(r)]

\* items_df after the Discount Allocation Logic
DiscountAllocation(raw_df, total_discount) ==
    LET total_item_original == TotalSpendOriginal(raw_df)
        allocate == Allocates(total_discount, total_item_original)
    IN  [i \in 1..Len(raw_df) |->
            AllocatedRow(raw_df[i], allocate, total_discount, total_item_original)]

\* items_df.drop(columns=['Total Spend Original', 'Discount Applied', 'Total Spend'])
EditorRow(r) ==
    [Item_Name |-> r.Item_Name, Unit_Price |-> r.Unit_Price,
     Quantity |-> r.Quantity, AI_Category |-> r.AI_Category]

\* a row of edited_df with 'Total Spend', 'Currency' and 'KRW Total Spend'
StoredRow(e, total_spend, display_unit, rates) ==
    [Item_Name |-> e.Item_Name, Unit_Price |-> e.Unit_Price,
     Quantity |-> e.Quantity, AI_Category |-> e.AI_Category,
     Total_Spend |-> total_spend,
     Currency |-> display_unit,
     KRW_Total_Spend |-> convert_to_krw(total_spend, display_unit, rates)]

EditedFrame(items_df, display_unit, rates) ==
    LET shown == data_editor(SeqMap(EditorRow, items_df))
    IN  [i \in 1..Len(shown) |->
            StoredRow(shown[i], items_df[i].Total_Spend, display_unit, rates)]

KrwOf(r) == r.KRW_Total_Spend

DisplayUnit(currency_unit) == IF currency_unit # <<>> THEN currency_unit ELSE KRW

FinalLocation(store_location_str) ==
    IF store_location_str # <<>> THEN store_location_str ELSE Seoul

\* the parsed date written anew, or today's when the parse raises
FinalDate(receipt_date_str, date_today) ==
    LET date_object == ParseDate(receipt_date_str)
    IN  IF date_object.ok THEN Strftime(date_object) ELSE Strftime(date_today)

\* the dict appended to all_receipts_summary
Summary(receipt_data, rates, date_today, coords, file, edited_df, total_amount) ==
    LET display_unit == DisplayUnit(StrippedText(receipt_data.currency_unit))
        krw_tax_total ==
            convert_to_krw(safe_get_amount(receipt_data, "tax_amount"), display_unit, rates)
        krw_tip_total ==
            convert_to_krw(safe_get_amount(receipt_data, "tip_amount"), display_unit, rates)
    IN  [id |-> file.id, filename |-> file.name,
         Store |-> Get(receipt_data.store_name, NA),
         Total |-> FinalTotalKrw(SeqMap(KrwOf, edited_df), krw_tip_total),
         Tax_KRW |-> krw_tax_total, Tip_KRW |-> krw_tip_total,
         Currency |-> KRW,
         Date |-> FinalDate(StrippedText(receipt_data.date), date_today),
         Location |-> FinalLocation(StrippedText(receipt_data.store_location)),
         Original_Total |-> total_amount,
         Original_Currency |-> display_unit,
         latitude |-> coords.lat, longitude |-> coords.lon]

\* the run from the items branch to the appends, for a frame of four columns
Stored(receipt_data, rates, date_today, coords, file, raw_df) ==
    LET total_discount == safe_get_amount(receipt_data, "discount_amount")
        total_amount == FinalTotalAmount(raw_df, total_discount,
                                         safe_get_amount(receipt_data, "total_amount"))
        items_df == DiscountAllocation(raw_df, total_discount)
        edited_df == EditedFrame(items_df,
                                 DisplayUnit(StrippedText(receipt_data.currency_unit)), rates)
    IN  [status |-> "ok", called |-> TRUE,
         total_amount |-> total_amount,
         discount_amount |-> total_discount,
         items_df |-> items_df, edited_df |-> edited_df,
         summary |-> Summary(receipt_data, rates, date_today, coords, file,
                             edited_df, total_amount)]

\* from the parsed document on: the reads that can raise, the items check, the
\* column rename, and the rest
Normalize(receipt_data, rates, date_today, coords, file) ==
    IF receipt_data.kind # "dict" THEN Blank("exception", TRUE)
    ELSE IF ~IsText(receipt_data.currency_unit) \/ ~IsText(receipt_data.date)
            \/ ~IsText(receipt_data.store_location) THEN Blank("exception", TRUE)
    ELSE IF ~(receipt_data.items.k = "list" /\ receipt_data.items.v # <<>>)
         THEN Blank("no_items", TRUE)
    ELSE LET cols == Columns(<<>>, receipt_data.items.v)
         IN  IF Len(cols) # 4 THEN Blank("exception", TRUE)
             ELSE Stored(receipt_data, rates, date_today, coords, file,
                         ItemsFrame(receipt_data.items.v, cols))

\* the whole of "if analyze_button and not is_already_analyzed:" for one response
AnalyzeApp1(resp, rates, date_today, coords, file) ==
    IF resp.none \/ resp.text = <<>> THEN Blank("api_failed", TRUE)
    ELSE LET parsed == json_loads(CleanApp1(resp.text))
         IN  IF ~parsed.ok THEN Blank("bad_json", TRUE)
             ELSE Normalize(parsed.doc, rates, date_today, coords, file)

----------------------------------------------------------------------------
(* The upload block of app2: no amounts but the total, no conversion.      *)

\* a row of app2's items_df
App2Row(item, cols) ==
    LET price == fillna(to_numeric(Cell(item, cols[2])), QInt(0))
        quantity == fillna(to_numeric(Cell(item, cols[3])), QInt(1))
    IN  [Item_Name |-> Cell(item, cols[1]),
         Unit_Price |-> price, Quantity |-> quantity,
         AI_Category |-> Cell(item, cols[4]),
         Total_Spend |-> QMul(price, quantity)]

\* the dict app2 appends; a total that is no int or float has become np.nan
App2Summary(receipt_data, file) ==
    [id |-> file.id, filename |-> file.name,
     Store |-> Get(receipt_data.store_name, NA),
     Total |-> IF receipt_data.total_amount.k = "num"
               THEN Num(receipt_data.total_amount.n) ELSE NaN,
     Currency |-> DisplayUnit(StrippedText(receipt_data.currency_unit)),
     Date |-> Get(receipt_data.date, NA)]

NormalizeApp2(receipt_data, file) ==
    IF receipt_data.kind # "dict" THEN Blank("exception", TRUE)
    ELSE IF ~IsText(receipt_data.currency_unit) THEN Blank("exception", TRUE)
    ELSE IF ~(receipt_data.items.k = "list" /\ receipt_data.items.v # <<>>)
         THEN Blank("no_items", TRUE)
    ELSE LET cols == Columns(<<>>, receipt_data.items.v)
         IN  IF Len(cols) # 4 THEN Blank("exception", TRUE)
             ELSE [Blank("ok", TRUE) EXCEPT
                     !.edited_df = [i \in 1..Len(receipt_data.items.v) |->
                                       App2Row(receipt_data.items.v[i], cols)],
                     !.summary = App2Summary(receipt_data, file)]

AnalyzeApp2(resp, file) ==
    IF resp.none \/ resp.text = <<>> THEN Blank("api_failed", TRUE)
    ELSE LET parsed == json_loads(CleanApp2(resp.text))
         IN  IF ~parsed.ok THEN Blank("bad_json", TRUE)
             ELSE NormalizeApp2(parsed.doc, file)

----------------------------------------------------------------------------
(* The rate provider. *)

\* a provider whose table quotes the home currency per USD
get_exchange_rates_HomePerUsd(api) ==
    LET krw_per_usd == RateGet(api.conversion_rates, KRW, QZero)
        usd_per_usd == RateGet(api.conversion_rates, USD, QInt(1))
    IN  IF api.kind # "json" \/ krw_per_usd = QZero \/ api.result # "success"
           \/ usd_per_usd = QZero
        THEN (KRW :> QInt(1350)) @@ (USD :> QInt(1350))
        ELSE (USD :> QDiv(krw_per_usd, usd_per_usd)) @@ (KRW :> krw_per_usd)

\* a provider that does not look at the 'result' of the body
get_exchange_rates_IgnoringResult(api) ==
    LET krw_per_usd == RateGet(api.conversion_rates, KRW, QZero)
        usd_per_usd == RateGet(api.conversion_rates, USD, QInt(1))
    IN  IF api.kind # "json" \/ krw_per_usd = QZero \/ usd_per_usd = QZero
        THEN FALLBACK_RATES
        ELSE (USD :> QDiv(krw_per_usd, usd_per_usd)) @@ (KRW :> QInt(1))

\* get_exchange_rates for one answer of the API: a body with its 'result' and
\* its 'conversion_rates' (a table of numbers per USD) or, of another kind, an
\* answer that makes a statement of the try block raise: the request itself
\* (request_error), raise_for_status (http_error), response.json() (not_json),
\* data.get on a body that is no object (not_object), conversion_rates.get on a
\* null (null_rates)
get_exchange_rates(api) ==
    LET conversion_rates == api.conversion_rates
        krw_per_usd == RateGet(conversion_rates, KRW, QZero)
        usd_per_usd == RateGet(conversion_rates, USD, QInt(1))
        eur_rate_vs_usd == RateGet(conversion_rates, EUR, QZero)
        jpy_rate_vs_usd == RateGet(conversion_rates, JPY, QZero)
        usd == (USD :> QDiv(krw_per_usd, usd_per_usd))
        eur == IF QPos(eur_rate_vs_usd)
               THEN (EUR :> QDiv(krw_per_usd, eur_rate_vs_usd)) ELSE <<>>
        jpy == IF QPos(jpy_rate_vs_usd)
               THEN (JPY :> QDiv(krw_per_usd, jpy_rate_vs_usd)) ELSE <<>>
    IN  IF api.kind # "json" THEN FALLBACK_RATES
        ELSE IF krw_per_usd = QZero \/ api.result # "success" THEN FALLBACK_RATES
        ELSE IF usd_per_usd = QZero THEN FALLBACK_RATES   \* ZeroDivisionError
        ELSE jpy @@ eur @@ usd @@ (KRW :> QInt(1))

RequestError == [kind |-> "request_error", result |-> "", conversion_rates |-> <<>>]

ApiBody(result, table) == [kind |-> "json", result |-> result, conversion_rates |-> table]

\* an answer that makes the try block raise
ApiFailure(kind) == [RequestError EXCEPT !.kind = kind]

NoCall == [fn |-> "none"]

----------------------------------------------------------------------------
(* Categories. *)

ALL_CATEGORIES ==
    {"Dining Out", "Casual Dining", "Coffee & Beverages", "Alcohol & Bars",
     "Groceries", "Household Essentials", "Beauty & Cosmetics", "Clothing & Fashion",
     "Medical & Pharmacy", "Health Supplements", "Education & Books",
     "Hobby & Skill Dev.", "Public Utilities", "Communication Fees",
     "Public Transit", "Fuel & Vehicle Maint.", "Parking & Tolls", "Taxi Convenience",
     "Movies & Shows", "Travel & Accommodation", "Games & Digital Goods",
     "Events & Gifts", "Fees & Penalties", "Rent & Mortgage", "Unclassified"}

\* a stored category cell that is the text of a canonical sub-category
IsCanonical(cell) == cell.k = "str" /\ Len(cell.s) = 1 /\ cell.s[1] \in ALL_CATEGORIES

\* the four classes of the report, and the nature of each sub-category
PSYCHOLOGICAL_CATEGORIES ==
    <<"Investment / Asset", "Experience / High-Value Consumption",
      "Habit / Impulse Loss", "Fixed / Essential Cost">>

\* SPENDING_NATURE, with the keys the source lists nature by nature
SPENDING_NATURE ==
    LET FixedEssential ==
            {"Rent & Mortgage", "Communication Fees", "Public Utilities",
             "Public Transit", "Parking & Tolls"}
        InvestmentAsset ==
            {"Medical & Pharmacy", "Health Supplements", "Education & Books",
             "Hobby & Skill Dev.", "Events & Gifts"}
        ConsumptionPlanned ==
            {"Groceries", "Household Essentials", "Fuel & Vehicle Maint."}
        ConsumptionExperience ==
            {"Dining Out", "Travel & Accommodation", "Movies & Shows",
             "Beauty & Cosmetics", "Clothing & Fashion"}
        ImpulseHabitual ==
            {"Casual Dining", "Coffee & Beverages", "Alcohol & Bars",
             "Games & Digital Goods"}
    IN  [c \in FixedEssential \cup InvestmentAsset \cup ConsumptionPlanned
               \cup ConsumptionExperience \cup ImpulseHabitual
               \cup {"Taxi Convenience", "Fees & Penalties", "Unclassified"} |->
            IF c \in FixedEssential THEN "Fixed_Essential"
            ELSE IF c \in InvestmentAsset THEN "Investment_Asset"
            ELSE IF c \in ConsumptionPlanned THEN "Consumption_Planned"
            ELSE IF c \in ConsumptionExperience THEN "Consumption_Experience"
            ELSE IF c \in ImpulseHabitual THEN "Impulse_Habitual"
            ELSE IF c = "Taxi Convenience" THEN "Impulse_Convenience"
            ELSE IF c = "Fees & Penalties" THEN "Loss_Inefficiency"
            ELSE "Loss_Unclassified"]

\* the cell is a text that is a key of the table
HasNature(sub_category) ==
    /\ sub_category.k = "str" /\ Len(sub_category.s) = 1
    /\ sub_category.s[1] \in DOMAIN SPENDING_NATURE

\* a lookup that knows no default: a cell that is no key has no class
get_psychological_category_NoDefault(sub_category) ==
    IF ~HasNature(sub_category) THEN "KeyError"
    ELSE LET nature == SPENDING_NATURE[sub_category.s[1]]
         IN  IF nature = "Investment_Asset" THEN PSYCHOLOGICAL_CATEGORIES[1]
             ELSE IF nature \in {"Consumption_Experience", "Consumption_Planned"}
             THEN PSYCHOLOGICAL_CATEGORIES[2]
             ELSE IF nature = "Fixed_Essential" THEN PSYCHOLOGICAL_CATEGORIES[4]
             ELSE PSYCHOLOGICAL_CATEGORIES[3]

\* the cell of the 'AI Category' column is looked up as it is: a null, a number
\* or an unknown text is no key
get_psychological_category(sub_category) ==
    LET nature == IF HasNature(sub_category) THEN SPENDING_NATURE[sub_category.s[1]]
                  ELSE "Loss_Unclassified"
    IN  IF nature \in {"Investment_Asset"} THEN PSYCHOLOGICAL_CATEGORIES[1]
        ELSE IF nature \in {"Consumption_Experience", "Consumption_Planned"}
        THEN PSYCHOLOGICAL_CATEGORIES[2]
        ELSE IF nature \in {"Impulse_Habitual", "Impulse_Convenience",
                            "Loss_Inefficiency", "Loss_Unclassified"}
        THEN PSYCHOLOGICAL_CATEGORIES[3]
        ELSE IF nature \in {"Fixed_Essential"} THEN PSYCHOLOGICAL_CATEGORIES[4]
        ELSE PSYCHOLOGICAL_CATEGORIES[3]

----------------------------------------------------------------------------
(* Inputs: the receipts the extraction service may return. *)

Item(name, price, quantity, category) ==
    <<[key |-> "name", val |-> name], [key |-> "price", val |-> price],
      [key |-> "quantity", val |-> quantity], [key |-> "category", val |-> category]>>

Word(w) == JStr(<<w>>)

Items(list) == [k |-> "list", v |-> list]
ItemsAbsent == [k |-> "absent", v |-> <<>>]
ItemsNull == [k |-> "null", v |-> <<>>]

Coffee == Item(Word("Coffee"), JNum(5000), JNum(2), Word("Coffee & Beverages"))
Bread == Item(Word("Bread"), JNum(1000), JNum(1), Word("Groceries"))
Pen == Item(Word("Pen"), JNum(100), JNum(1), Word("Education & Books"))
Ink == Item(Word("Ink"), JNum(200), JNum(1), Word("Education & Books"))

D20240115 == <<"2", "0", "2", "4", "-", "0", "1", "-", "1", "5">>
D20240230 == <<"2", "0", "2", "4", "-", "0", "2", "-", "3", "0">>
Busan == <<"B", "u", "s", "a", "n">>

\* the scenario of the specification: 2 x 5000, discount 1000, reported total 9500
BaseReceipt ==
    [kind |-> "dict", store_name |-> Word("Cafe"), date |-> JStr(D20240115),
     store_location |-> JStr(Busan), total_amount |-> JNum(9500),
     tax_amount |-> JNum(0), tip_amount |-> JNum(0), discount_amount |-> JNum(1000),
     currency_unit |-> JStr(KRW), items |-> Items(<<Coffee>>)]

\* one loaf at 1000, no discount, reported total t
BreadReceipt(t) ==
    [BaseReceipt EXCEPT !.total_amount = t, !.discount_amount = JNum(0),
                        !.items = Items(<<Bread>>)]

\* pen and ink, 300 together, in dollars, with tax 3 and tip 5
PenReceipt(discount) ==
    [BaseReceipt EXCEPT !.total_amount = JNum(200), !.tax_amount = JNum(3),
                        !.tip_amount = JNum(5), !.discount_amount = discount,
                        !.currency_unit = JStr(USD), !.items = Items(<<Pen, Ink>>)]

\* no currency, no date, no location
BareReceipt ==
    [BaseReceipt EXCEPT !.currency_unit = JAbsent, !.date = JAbsent,
                        !.store_location = JAbsent]

WithItem(item) ==
    [BaseReceipt EXCEPT !.total_amount = JNum(0), !.discount_amount = JNum(0),
                        !.items = Items(<<item>>)]

\* a receipt with a line of a negative price
CrateReceipt(discount) ==
    [BaseReceipt EXCEPT !.total_amount = JNum(4000), !.discount_amount = discount,
                        !.items = Items(<<Coffee, Item(Word("Crate return"), JNum(-6000),
                                                       JNum(1), Word("Groceries"))>>)]

ListDoc == [kind |-> "list"]
NullDoc == [kind |-> "null"]

\* receipts that differ in the amounts
AmountReceipts ==
    {BaseReceipt,
     BreadReceipt(JNum(1)), BreadReceipt(JNum(950)), BreadReceipt(JNum(900)),
     BreadReceipt(JNum(899)), BreadReceipt(JNum(1101)), BreadReceipt(JAbsent),
     BreadReceipt(JNull), BreadReceipt(JStr(<<"a", "b", "c">>)),
     BreadReceipt(JStr(<<"1", "0", "0", "0">>)),
     PenReceipt(JNum(100)), PenReceipt(JNum(0)), PenReceipt(JNum(400)),
     PenReceipt(JNum(300)), PenReceipt(JNum(-100)), PenReceipt(JStr(<<"n", "o">>)),
     [PenReceipt(JNum(100)) EXCEPT !.tax_amount = JNull, !.tip_amount = JAbsent],
     [PenReceipt(JNum(100)) EXCEPT !.currency_unit = JStr(JPY)],
     \* two coffees and a tip
     [BaseReceipt EXCEPT !.tip_amount = JNum(500)]}

\* receipts that differ in the texts
TextReceipts ==
    {BareReceipt,
     [PenReceipt(JNum(100)) EXCEPT !.currency_unit = JAbsent, !.date = JAbsent,
                                   !.store_location = JAbsent],
     [BaseReceipt EXCEPT !.currency_unit = JNull],
     [BaseReceipt EXCEPT !.date = JNull],
     [BaseReceipt EXCEPT !.store_location = JNull],
     [BaseReceipt EXCEPT !.currency_unit = JNum(410)],
     [BaseReceipt EXCEPT !.currency_unit = JStr(<<" ", "u", "s", "d", " ">>)],
     [BaseReceipt EXCEPT !.currency_unit = JStr(<<"C", "H", "F">>)],
     [BaseReceipt EXCEPT !.currency_unit = JStr(<<" ">>), !.store_location = JStr(<<" ">>)],
     [BaseReceipt EXCEPT !.date = JStr(D20240230)],
     [BaseReceipt EXCEPT !.date = JStr(<<"t", "o", "d", "a", "y">>)],
     [BaseReceipt EXCEPT !.store_name = JAbsent]}

\* receipts that differ in the items
ItemReceipts ==
    {[BaseReceipt EXCEPT !.items = ItemsAbsent],
     [BaseReceipt EXCEPT !.items = ItemsNull],
     [BaseReceipt EXCEPT !.items = Items(<<>>)],
     WithItem(Item(Word("Tea"), JStr(<<"a", "b", "c">>), JNull, Word("Coffee & Beverages"))),
     WithItem(Item(Word("Tea"), JStr(<<"7", "0", "0">>), JNum(0), Word("Snacks"))),
     WithItem(Item(Word("Tea"), JNum(700), JNum(-1), JNull)),
     WithItem(Item(JNull, JNull, JStr(<<"x">>), Word(""))),
     \* an item without its category: the frame has three columns
     WithItem(SubSeq(Coffee, 1, 3)),
     \* the first item lacks its price, the second has it: the columns are
     \* name, quantity, category, price
     [BaseReceipt EXCEPT !.items = Items(<<<<Coffee[1], Coffee[3], Coffee[4]>>, Bread>>)],
     \* an item with a fifth key
     WithItem(Append(Coffee, [key |-> "note", val |-> Word("hot")])),
     \* two coffees and a returned crate, without and with a discount
     CrateReceipt(JNum(0)), CrateReceipt(JNum(400)),
     \* a discount on a receipt whose only line has the quantity -1
     [WithItem(Item(Word("Tea"), JNum(700), JNum(-1), Word("Coffee & Beverages")))
        EXCEPT !.discount_amount = JNum(100)],
     \* coffee and bread, nothing negative
     [BaseReceipt EXCEPT !.total_amount = JNum(10000), !.items = Items(<<Coffee, Bread>>)]}

AllReceipts == AmountReceipts \cup TextReceipts \cup ItemReceipts \cup {ListDoc, NullDoc}

\* the receipts of the session specification
SessionReceipts ==
    {BaseReceipt,
     [BaseReceipt EXCEPT !.currency_unit = JNull],
     [BaseReceipt EXCEPT !.items = Items(<<>>)]}

None == [none |-> TRUE, text |-> <<>>]
Text(tokens) == [none |-> FALSE, text |-> tokens]

Fenced(doc) == Text(<<TokFenceJson, TokWs, TokDoc(doc), TokWs, TokFence>>)

\* the answers of the extraction service for a set of receipts
Responses(receipts) ==
    {None, Text(<<>>), Text(<<TokProse>>),
     Text(<<TokProse, TokFenceJson, TokWs, TokDoc(BaseReceipt), TokWs, TokFence>>),
     Text(<<TokWs, TokDoc(BaseReceipt), TokWs>>),
     Text(<<TokFenceJson, TokDoc(BaseReceipt)>>),
     Text(<<TokDoc(BaseReceipt), TokFence>>)}
    \cup {Fenced(doc) : doc \in receipts}

----------------------------------------------------------------------------
(* Inputs: files, forms, the other services. *)

RECURSIVE Decimal(_)
Decimal(n) == IF n < 10 THEN <<Digit(n)>> ELSE Decimal(n \div 10) \o <<Digit(n % 10)>>

\* f"{uploaded_file.name}-{uploaded_file.size}"
file_id(f) == f.name \o <<"-">> \o Decimal(f.size)

NoFile == [name |-> <<>>, size |-> -1]

ReceiptFile(name, size) == [name |-> name, size |-> size]

FileA == ReceiptFile(<<"a.jpg">>, 10)
FileB == ReceiptFile(<<"a.jpg">>, 11)


\* the manual expense form as submitted
Form(description, amount, category, currency, location) ==
    [manual_date |-> StartDate, manual_description |-> description,
     manual_store |-> <<>>, manual_amount |-> amount, manual_category |-> category,
     manual_currency |-> currency, manual_location |-> location]

ManualForms ==
    {Form(<<"Lunch">>, QInt(12), "Dining Out", USD, <<>>),
     Form(<<"Taxi">>, QInt(9000), "Taxi Convenience", KRW, Busan),
     Form(<<>>, QInt(12), "Unclassified", KRW, <<>>),
     Form(<<"Lunch">>, QZero, "Unclassified", KRW, <<>>)}

\* a ledger CSV as pd.read_csv returns it: its columns and its rows.  A cell of
\* 'KRW Total Spend' is a number, [nan |-> TRUE] or, in a column that holds
\* anything that is no number, [text |-> its characters]
NoCsv == [name |-> <<>>, readable |-> FALSE, columns |-> {}, rows |-> <<>>]

required_cols ==
    {"Item Name", "Unit Price", "Quantity", "AI Category", "Total Spend", "Currency",
     "KRW Total Spend"}

CsvRow(name, category, krw) ==
    [Item_Name |-> Word(name), Unit_Price |-> QInt(1), Quantity |-> QInt(1),
     AI_Category |-> Word(category), Total_Spend |-> QInt(1), Currency |-> KRW,
     KRW_Total_Spend |-> krw]

CsvFile(name, columns, rows) ==
    [name |-> name, readable |-> TRUE, columns |-> columns, rows |-> rows]

NaNCell == [nan |-> TRUE]
TextCell(t) == [text |-> t]

CsvFiles ==
    {CsvFile(<<"good.csv">>, required_cols,
             <<CsvRow("Rice", "Groceries", QInt(3000)), CsvRow("Cola", "Coffee & Beverages", QInt(1500))>>),
     CsvFile(<<"gaps.csv">>, required_cols \cup {"Date"},
             <<CsvRow("Rice", "Groceries", QInt(3000)), CsvRow("Cola", "Soda", NaNCell)>>),
     CsvFile(<<"short.csv">>, required_cols \ {"KRW Total Spend"},
             <<CsvRow("Rice", "Groceries", QInt(3000))>>),
     CsvFile(<<"text.csv">>, required_cols,
             <<CsvRow("Rice", "Groceries", TextCell(<<"3", ",", "0", "0", "0">>)),
               CsvRow("Cola", "Groceries", TextCell(<<"1", "5", "0", "0">>))>>),
     CsvFile(<<"mixed.csv">>, required_cols,
             <<CsvRow("Rice", "Groceries", TextCell(<<"a", "b", "c">>)),
               CsvRow("Cola", "Groceries", NaNCell)>>),
     [NoCsv EXCEPT !.name = <<"empty.csv">>]}

ApiAnswers ==
    {RequestError,
     ApiBody("success", (USD :> QInt(1)) @@ (KRW :> QInt(1400))),
     ApiBody("error", (USD :> QInt(1)) @@ (KRW :> QInt(1400)))}

\* the bounds of the model
MaxLedger == 2
MaxNow == 2
MaxDays == 1
MaxChat == 2
MaxTurns == 4

----------------------------------------------------------------------------
(* The chat tab, as every run of app1 renders it. *)

Ids(summaries) == [i \in 1..Len(summaries) |-> summaries[i].id]

\* hash(tuple(ids)), taken as injective
DataHash(summaries) == [set |-> TRUE, ids |-> Ids(summaries)]

NoPrompt == ""

\* a message, with the summary ids of the ledger it was written about
Message(role, content, about) == [role |-> role, content |-> content, about |-> about]

IsNumber(cell) == DOMAIN cell = {"n", "d"}
IsTextCell(cell) == DOMAIN cell = {"text"}

RECURSIVE Concat(_)
Concat(texts) == IF texts = <<>> THEN <<>> ELSE Head(texts) \o Concat(Tail(texts))

\* the analysis section of tab1 comes before the reset button and the other
\* tabs.  It reads summary_df['Total'], which a ledger without summaries does
\* not have, and formats every 'Total' and every 'KRW Total Spend' with
\* f"{x:,.0f}", which raises ValueError on a text: the run ends there
Tab1Raises(items, summaries) ==
    /\ items # <<>>
    /\ \/ summaries = <<>>
       \/ \E i \in 1..Len(summaries) : IsTextCell(summaries[i].Total)
       \/ \E b \in 1..Len(items) : \E i \in 1..Len(items[b]) :
              IsTextCell(items[b][i].KRW_Total_Spend)

\* a tab that resets the chat only when no hash is stored yet
HashChangedWhenUnset(stored_hash, current_data_hash) == ~stored_hash.set

\* 'last_data_hash' not in st.session_state or
\* st.session_state.last_data_hash != current_data_hash
HashChanged(stored_hash, current_data_hash) ==
    ~stored_hash.set \/ stored_hash # current_data_hash

\* the chat history and the stored hash after the tab's code, for the prompt
\* typed in this run (or none) and the advisory service's answer to it
Tab2(items, summaries, history, stored_hash, prompt, answered) ==
    LET current_data_hash == DataHash(summaries)
        changed == HashChanged(stored_hash, current_data_hash)
        h1 == IF changed THEN <<>> ELSE history
        greets == h1 = <<>> \/ (Len(h1) = 1 /\ h1[1].content = "greeting")
        h2 == IF greets
              THEN <<Message("assistant", "greeting", Ids(summaries))>> ELSE h1
        h3 == IF prompt = NoPrompt THEN h2
              ELSE Append(h2, Message("user", prompt, Ids(summaries)))
        h4 == IF prompt # NoPrompt /\ answered
              THEN Append(h3, Message("assistant", "reply", Ids(summaries))) ELSE h3
    IN  IF items = <<>>
        THEN [chat_history |-> history, last_data_hash |-> stored_hash]
        ELSE [chat_history |-> h4, last_data_hash |-> current_data_hash]

\* the rest of a run of the script after its handler: in app1 tab2, when the
\* run gets through tab1; nothing in app2
Render(prompt, answered) ==
    IF variant = "app1" /\ ~Tab1Raises(all_receipts_items', all_receipts_summary')
    THEN LET t == Tab2(all_receipts_items', all_receipts_summary', chat_history,
                       last_data_hash, prompt, answered)
         IN  /\ chat_history' = t.chat_history
             /\ last_data_hash' = t.last_data_hash
    ELSE UNCHANGED <<chat_history, last_data_hash>>

\* the calls of client.models.generate_content in a run: the handler holds one
\* call statement, in no loop, and its except branch reports and returns
ServiceCalls(called) == IF called THEN 1 ELSE 0

\* what a run did: the handler, how it ended, whether it called the extraction or
\* advisory service, and the document an analysis parsed or the form a submit read
Did(op, status, called) ==
    [op |-> op, status |-> status, called |-> called, calls |-> ServiceCalls(called),
     receipt_data |-> NoDoc]

----------------------------------------------------------------------------
(* The session. *)

Init ==
    /\ variant \in {"app1", "app2"}
    /\ all_receipts_items = <<>>
    /\ all_receipts_summary = <<>>
    /\ chat_history = <<>>
    /\ last_data_hash = [set |-> FALSE, ids |-> <<>>]
    /\ csv_load_triggered = FALSE
    /\ uploaded_file = NoFile
    /\ uploaded_csv_file = NoCsv
    /\ EXCHANGE_RATES \in IF variant = "app1"
                          THEN {get_exchange_rates(api) : api \in ApiAnswers}
                          ELSE {FALLBACK_RATES}
    /\ today = 0
    /\ now = 0
    /\ last = Did("other", "none", FALSE)
    /\ analyses = <<>>
    /\ call = NoCall

\* the user puts a file into the receipt uploader, or takes it out
SelectFile(files) ==
    /\ \E f \in files \cup {NoFile} : f # uploaded_file /\ uploaded_file' = f
    /\ last' = Did("other", "none", FALSE)
    /\ UNCHANGED <<call, variant, all_receipts_items, all_receipts_summary, csv_load_triggered,
                   uploaded_csv_file, EXCHANGE_RATES, today, now, analyses>>
    /\ Render(NoPrompt, FALSE)

\* the document an analysis has read, if the response held one
Parsed(resp) ==
    IF resp.none THEN NoDoc
    ELSE json_loads(IF variant = "app1" THEN CleanApp1(resp.text)
                    ELSE CleanApp2(resp.text)).doc

\* the block appended as soon as it is built, before the statements that can
\* still raise
AppendedItemsEarly(items, out) ==
    IF out.called THEN Append(items, out.edited_df) ELSE items

\* st.session_state.all_receipts_items.append(edited_df), reached by a run that
\* raised nothing before it
AppendedItems(items, out) == IF out.status = "ok" THEN Append(items, out.edited_df) ELSE items

\* the summary list assigned anew instead of appended to
OverwrittenSummary(summaries, out) ==
    IF out.status = "ok" THEN <<out.summary>> ELSE summaries

\* st.session_state.all_receipts_summary.append({...})
AppendedSummary(summaries, out) ==
    IF out.status = "ok" THEN Append(summaries, out.summary) ELSE summaries

\* the check of the stored ids left out
NeverAnalyzed(summaries, id) == FALSE

\* any(s.get('id') == file_id for s in st.session_state.all_receipts_summary)
is_already_analyzed(summaries, id) == \E i \in 1..Len(summaries) : summaries[i].id = id

\* "Start Receipt Analysis" with a file in the uploader; the button is disabled,
\* and the click nothing but a render, when the file is already analyzed
Analyze(resps, geo) ==
    /\ uploaded_file # NoFile
    /\ Len(all_receipts_items) < MaxLedger
    /\ LET id == file_id(uploaded_file)
           file == [id |-> id, name |-> uploaded_file.name]
       IN  IF is_already_analyzed(all_receipts_summary, id)
           THEN /\ last' = Did("analyze", "already", FALSE)
                /\ UNCHANGED <<all_receipts_items, all_receipts_summary, analyses>>
           ELSE \E resp \in resps, coords \in geo :
                  LET out == IF variant = "app1"
                             THEN AnalyzeApp1(resp, EXCHANGE_RATES, DateOf(today), coords, file)
                             ELSE AnalyzeApp2(resp, file)
                  IN  /\ last' = [Did("analyze", out.status, out.called)
                                     EXCEPT !.receipt_data = Parsed(resp)]
                      /\ all_receipts_items' = AppendedItems(all_receipts_items, out)
                      /\ all_receipts_summary' = AppendedSummary(all_receipts_summary, out)
                      /\ analyses' = IF out.status = "ok"
                                     THEN Append(analyses,
                                            [receipt_data |-> Parsed(resp),
                                             rates |-> EXCHANGE_RATES,
                                             date_today |-> DateOf(today),
                                             coords |-> coords, out |-> out])
                                     ELSE analyses
    /\ UNCHANGED <<call, variant, csv_load_triggered, uploaded_file, uploaded_csv_file,
                   EXCHANGE_RATES, today, now>>
    /\ Render(NoPrompt, FALSE)

\* "Reset Record": the button is drawn only while there are item blocks
Reset ==
    /\ all_receipts_items # <<>>
    /\ variant = "app1" => ~Tab1Raises(all_receipts_items, all_receipts_summary)
    /\ all_receipts_items' = <<>>
    /\ all_receipts_summary' = <<>>
    /\ analyses' = <<>>
    /\ last' = Did("reset", "none", FALSE)
    /\ IF variant = "app1"
       THEN LET t == Tab2(<<>>, <<>>, <<>>, last_data_hash, NoPrompt, FALSE)
            IN  chat_history' = t.chat_history /\ last_data_hash' = t.last_data_hash
       ELSE UNCHANGED <<chat_history, last_data_hash>>
    /\ UNCHANGED <<call, variant, csv_load_triggered, uploaded_file, uploaded_csv_file,
                   EXCHANGE_RATES, today, now>>


\* a timestamp that is the same at every reading of the clock
TimestampTextFrozen(t) == <<"0", ".", "0">>

\* f"manual-{pd.Timestamp.now().timestamp()}" and f"imported-{...}"
TimestampText(t) == Decimal(t) \o <<".", "0">>

\* a form that asks for a description only
FormIsValidAnyAmount(form) == form.manual_description # <<>>

\* manual_description and manual_amount > 0 and manual_category
FormIsValid(form) ==
    /\ form.manual_description # <<>>
    /\ QPos(form.manual_amount)
    /\ form.manual_category # ""

\* the run of a submitted form, with the form it read
Submitted(form, status) ==
    [Did("manual", status, FALSE) EXCEPT !.receipt_data = [kind |-> "form", form |-> form]]

\* "Add to Ledger" of the manual expense form
ManualSubmit(forms, geo) ==
    /\ variant = "app1"
    /\ Len(all_receipts_items) < MaxLedger
    /\ \E form \in forms, coords \in geo :
         IF FormIsValid(form)
         THEN LET krw_total == convert_to_krw(form.manual_amount, form.manual_currency,
                                              EXCHANGE_RATES)
                  final_location == IF form.manual_location # <<>> THEN form.manual_location
                                    ELSE <<"Manual Input Location">>
                  place == IF form.manual_location # <<>> THEN coords ELSE SeoulCenter
                  manual_df == <<[Item_Name |-> JStr(form.manual_description),
                                  Unit_Price |-> form.manual_amount, Quantity |-> QInt(1),
                                  AI_Category |-> Word(form.manual_category),
                                  Total_Spend |-> form.manual_amount,
                                  Currency |-> form.manual_currency,
                                  KRW_Total_Spend |-> krw_total]>>
                  manual_summary ==
                      [id |-> <<"manual-">> \o TimestampText(now),
                       filename |-> <<"Manual Entry">>,
                       Store |-> JStr(IF form.manual_store # <<>> THEN form.manual_store
                                      ELSE <<"Manual Entry">>),
                       Total |-> krw_total, Tax_KRW |-> QZero, Tip_KRW |-> QZero,
                       Currency |-> KRW, Date |-> Strftime(form.manual_date),
                       Location |-> final_location,
                       Original_Total |-> form.manual_amount,
                       Original_Currency |-> form.manual_currency,
                       latitude |-> place.lat, longitude |-> place.lon]
              IN  /\ now < MaxNow
                  /\ all_receipts_items' = Append(all_receipts_items, manual_df)
                  /\ all_receipts_summary' = Append(all_receipts_summary, manual_summary)
                  /\ now' = now + 1
                  /\ last' = Submitted(form, "ok")
         ELSE /\ last' = Submitted(form, "rejected")
              /\ UNCHANGED <<all_receipts_items, all_receipts_summary, now>>
    /\ UNCHANGED <<call, variant, csv_load_triggered, uploaded_file, uploaded_csv_file,
                   EXCHANGE_RATES, today, analyses>>
    /\ Render(NoPrompt, FALSE)


\* Series.sum() of a column: NaN is skipped in a column of numbers; a column of
\* texts is added up with +, which joins them and raises TypeError on a NaN
ColumnSum(cells) ==
    LET Value(c) == IF IsNumber(c) THEN c ELSE QZero
        TextOf(c) == c.text
    IN  IF \A i \in 1..Len(cells) : ~IsTextCell(cells[i])
        THEN [raises |-> FALSE, value |-> QSum(SeqMap(Value, cells))]
        ELSE IF \A i \in 1..Len(cells) : IsTextCell(cells[i])
        THEN [raises |-> FALSE, value |-> TextCell(Concat(SeqMap(TextOf, cells)))]
        ELSE [raises |-> TRUE, value |-> QZero]

regenerate_summary_data(item_df, columns, stamp, date_today) ==
    LET final_total_krw == ColumnSum(SeqMap(KrwOf, item_df)).value
    IN  [id |-> <<"imported-">> \o TimestampText(stamp), filename |-> <<"Imported CSV">>,
         Store |-> Word("Imported Record"), Total |-> final_total_krw,
         Tax_KRW |-> QZero, Tip_KRW |-> QZero, Currency |-> KRW,
         Date |-> Strftime(date_today), Location |-> <<"Imported Location">>,
         Original_Total |-> final_total_krw, Original_Currency |-> KRW,
         latitude |-> SeoulCenter.lat, longitude |-> SeoulCenter.lon]

\* the csv_uploader changes: on_change sets the flag, then the CSV section runs
CsvChange(files) ==
    /\ variant = "app1"
    /\ Len(all_receipts_items) < MaxLedger
    /\ \E f \in files \cup {NoCsv} :
         /\ f # uploaded_csv_file
         /\ uploaded_csv_file' = f
         /\ IF f = NoCsv
            THEN /\ csv_load_triggered' = TRUE
                 /\ last' = Did("other", "none", FALSE)
                 /\ UNCHANGED <<all_receipts_items, all_receipts_summary, now>>
            ELSE /\ csv_load_triggered' = FALSE
                 /\ IF ~f.readable
                    THEN /\ last' = Did("csv", "exception", FALSE)
                         /\ UNCHANGED <<all_receipts_items, all_receipts_summary, now>>
                    ELSE IF ~(required_cols \subseteq f.columns)
                    THEN /\ last' = Did("csv", "rejected", FALSE)
                         /\ UNCHANGED <<all_receipts_items, all_receipts_summary, now>>
                    ELSE     /\ now < MaxNow
                             /\ all_receipts_items' = Append(all_receipts_items, f.rows)
                             /\ IF ColumnSum(SeqMap(KrwOf, f.rows)).raises
                                THEN /\ last' = Did("csv", "exception", FALSE)
                                     /\ UNCHANGED <<all_receipts_summary, now>>
                                ELSE /\ all_receipts_summary' =
                                          Append(all_receipts_summary,
                                                 regenerate_summary_data(f.rows, f.columns,
                                                                         now, DateOf(today)))
                                     /\ now' = now + 1
                                     /\ last' = Did("csv", "ok", FALSE)
    /\ UNCHANGED <<call, variant, uploaded_file, EXCHANGE_RATES, today, analyses>>
    /\ Render(NoPrompt, FALSE)

Prompts == {"How do I save?"}

\* a chat that forgets the prompt of a failed call
ChatDroppingFailedPrompt(limit) ==
    /\ variant = "app1"
    /\ all_receipts_items # <<>>
    /\ ~Tab1Raises(all_receipts_items, all_receipts_summary)
    /\ Len(chat_history) < limit
    /\ \E prompt \in Prompts, answered \in BOOLEAN :
         /\ last' = Did("chat", IF answered THEN "ok" ELSE "api_failed", TRUE)
         /\ UNCHANGED <<call, variant, all_receipts_items, all_receipts_summary,
                        csv_load_triggered, uploaded_file, uploaded_csv_file,
                        EXCHANGE_RATES, today, now, analyses>>
         /\ Render(IF answered THEN prompt ELSE NoPrompt, answered)

\* a prompt typed into the chat input, and the advisory service answering it or
\* not; the model stops at a history of limit messages
Chat(limit) ==
    /\ variant = "app1"
    /\ all_receipts_items # <<>>
    /\ ~Tab1Raises(all_receipts_items, all_receipts_summary)
    /\ Len(chat_history) < limit
    /\ \E prompt \in Prompts, answered \in BOOLEAN :
         /\ last' = Did("chat", IF answered THEN "ok" ELSE "api_failed", TRUE)
         /\ UNCHANGED <<call, variant, all_receipts_items, all_receipts_summary,
                        csv_load_triggered, uploaded_file, uploaded_csv_file,
                        EXCHANGE_RATES, today, now, analyses>>
         /\ Render(prompt, answered)

\* a run in which no handler takes part and that repeats a call that failed
RerunRetrying(apis) ==
    /\ EXCHANGE_RATES' \in IF variant = "app1"
                           THEN {EXCHANGE_RATES} \cup {get_exchange_rates(api) : api \in apis}
                           ELSE {EXCHANGE_RATES}
    /\ last' = Did("other", "none", last.status = "api_failed")
    /\ UNCHANGED <<call, variant, all_receipts_items, all_receipts_summary, csv_load_triggered,
                   uploaded_file, uploaded_csv_file, today, now, analyses>>
    /\ Render(NoPrompt, FALSE)

\* a run of the script that no handler takes part in; its get_exchange_rates is
\* served from the cache or, the cache expired, from the API
Rerun(apis) ==
    /\ EXCHANGE_RATES' \in IF variant = "app1"
                           THEN {EXCHANGE_RATES} \cup {get_exchange_rates(api) : api \in apis}
                           ELSE {EXCHANGE_RATES}
    /\ last' = Did("other", "none", FALSE)
    /\ UNCHANGED <<call, variant, all_receipts_items, all_receipts_summary, csv_load_triggered,
                   uploaded_file, uploaded_csv_file, today, now, analyses>>
    /\ Render(NoPrompt, FALSE)

\* midnight
Tick ==
    /\ today < MaxDays
    /\ today' = today + 1
    /\ UNCHANGED <<call, variant, all_receipts_items, all_receipts_summary, chat_history,
                   last_data_hash, csv_load_triggered, uploaded_file, uploaded_csv_file,
                   EXCHANGE_RATES, now, last, analyses>>

----------------------------------------------------------------------------
(* The helpers on their own: get_exchange_rates on the answers the API may  *)
(* give, convert_to_krw on amounts, codes and tables of any make.           *)

RateApis ==
    {RequestError, ApiFailure("http_error"), ApiFailure("not_json"),
     ApiFailure("not_object"), ApiFailure("null_rates"),
     ApiBody("success", (USD :> QInt(1)) @@ (KRW :> QInt(1400))),
     ApiBody("error", (USD :> QInt(1)) @@ (KRW :> QInt(1400))),
     ApiBody("success", (USD :> QInt(1)) @@ (KRW :> QInt(1400)) @@ (EUR :> Q(9, 10))
                        @@ (JPY :> QInt(150))),
     ApiBody("success", (USD :> QInt(1)) @@ (KRW :> QInt(1400)) @@ (EUR :> QZero)
                        @@ (JPY :> QInt(-150))),
     ApiBody("success", (USD :> QInt(1)) @@ (EUR :> Q(9, 10))),
     ApiBody("success", (USD :> QInt(1)) @@ (KRW :> QZero)),
     ApiBody("success", (USD :> QZero) @@ (KRW :> QInt(1400))),
     ApiBody("success", (KRW :> QInt(1400))),
     ApiBody("success", <<>>)}

\* EXCHANGE_RATES = get_exchange_rates(), the cache expired
GetRates(apis) ==
    /\ \E api \in apis :
         /\ EXCHANGE_RATES' = get_exchange_rates(api)
         /\ call' = [fn |-> "get_exchange_rates", api |-> api,
                     result |-> get_exchange_rates(api)]
    /\ UNCHANGED <<variant, all_receipts_items, all_receipts_summary, chat_history,
                   last_data_hash, csv_load_triggered, uploaded_file, uploaded_csv_file,
                   today, now, last, analyses>>

Amounts == {QInt(0), QInt(5), Q(1, 2), QInt(-3)}

CHF == <<"C", "H", "F">>

Codes == {KRW, <<" ", "k", "r", "w">>, USD, <<"u", "s", "d", " ">>, EUR, JPY, CHF, <<>>}

\* tables of any make: with rates of 0, without USD, without KRW
RateTables ==
    {FALLBACK_RATES,
     (KRW :> QInt(1)) @@ (USD :> QInt(1350)) @@ (EUR :> QZero),
     (KRW :> QInt(1)) @@ (EUR :> QZero),
     (KRW :> QInt(1)) @@ (USD :> QZero),
     (KRW :> QZero) @@ (USD :> QInt(1350)),
     (USD :> QInt(1350)),
     (KRW :> QInt(2)) @@ (USD :> QInt(1350))}

\* convert_to_krw(amount, currency, rates), on the table the run serves or on
\* another
Convert(amounts, codes, tables) ==
    /\ \E amount \in amounts, currency \in codes, served \in BOOLEAN :
         \E rates \in IF served THEN {EXCHANGE_RATES} ELSE tables :
            call' = [fn |-> "convert_to_krw", amount |-> amount, currency |-> currency,
                     rates |-> rates, served |-> served,
                     result |-> convert_to_krw(amount, currency, rates)]
    /\ UNCHANGED <<variant, all_receipts_items, all_receipts_summary, chat_history,
                   last_data_hash, csv_load_triggered, uploaded_file, uploaded_csv_file,
                   EXCHANGE_RATES, today, now, last, analyses>>

\* the cells a category column may hold: the canonical texts, other texts, a
\* null, a number
Labels ==
    {Word(c) : c \in ALL_CATEGORIES}
    \cup {Word("Snacks"), Word(""), Word("coffee & beverages"), Word(" Groceries "),
          JNull, JNum(7)}

\* get_psychological_category(sub_category)
Classify(labels) ==
    /\ \E sub_category \in labels :
         call' = [fn |-> "get_psychological_category", sub_category |-> sub_category,
                  result |-> get_psychological_category(sub_category)]
    /\ UNCHANGED <<variant, all_receipts_items, all_receipts_summary, chat_history,
                   last_data_hash, csv_load_triggered, uploaded_file, uploaded_csv_file,
                   EXCHANGE_RATES, today, now, last, analyses>>

NextC ==
    \/ GetRates(RateApis)
    \/ Convert(Amounts, Codes, RateTables)
    \/ Classify(Labels)

SpecC == Init /\ [][NextC]_vars

\* the session: every operation, on few inputs
SessionForms ==
    {Form(<<"Lunch">>, QInt(12), "Dining Out", USD, <<>>),
     Form(<<"Lunch">>, QZero, "Unclassified", KRW, <<>>)}

SessionCsvFiles == {f \in CsvFiles : f.name \in {<<"good.csv">>, <<"mixed.csv">>}}

Next ==
    \/ SelectFile({FileA, FileB})
    \/ Analyze(Responses(SessionReceipts), {Elsewhere})
    \/ ManualSubmit(SessionForms, {Elsewhere})
    \/ CsvChange(SessionCsvFiles)
    \/ Reset
    \/ Chat(MaxChat)
    \/ Rerun({})

Spec == Init /\ [][Next]_vars

\* one receipt file and every receipt the model knows
NextN ==
    \/ SelectFile({FileA})
    \/ Analyze(Responses(AllReceipts), {Elsewhere})
    \/ Reset
    \/ Rerun(ApiAnswers)
    \/ Tick

SpecN == Init /\ [][NextN]_vars

\* two files and few receipts, on changing days, rate tables and geocoder
\* answers.  The caches of get_exchange_rates (24 hours) and geocode_address
\* (48 hours) belong to the process, not to the session: an entry may expire
\* between any two runs.
RepeatedReceipts == {BareReceipt, PenReceipt(JNum(100))}

\* geocode_address: the coordinates of the API, or the fallback when it fails
GeoAnswers == {SeoulCenter, Elsewhere}

NextD ==
    \/ SelectFile({FileA, FileB})
    \/ Analyze(Responses(RepeatedReceipts), GeoAnswers)
    \/ Reset
    \/ Rerun(ApiAnswers)
    \/ Tick

SpecD == Init /\ [][NextD]_vars

\* the entries that come without a receipt: every form and every CSV file the
\* model knows, on changing rate tables
NextM ==
    \/ ManualSubmit(ManualForms, GeoAnswers)
    \/ CsvChange(CsvFiles)
    \/ Reset
    \/ Rerun(ApiAnswers)
    \/ Tick

SpecM == Init /\ [][NextM]_vars

\* the chat on a ledger of manual entries, over several turns
NextH ==
    \/ ManualSubmit(SessionForms, {Elsewhere})
    \/ Chat(MaxTurns)
    \/ Reset
    \/ Rerun({})

SpecH == Init /\ [][NextH]_vars

----------------------------------------------------------------------------
(* Properties of the session. *)

IsPrefix(s, t) == Len(s) <= Len(t) /\ SubSeq(t, 1, Len(s)) = s

\* the ways an analysis ends without storing a receipt
Failures == {"api_failed", "bad_json", "exception", "no_items"}

\* C1: an analysis that ends in a failure (the service gave nothing, the text is
\* no JSON, the document has no items, or a step raised) leaves the item blocks
\* and the summaries exactly as they were, and the file is still not counted as
\* analyzed, so the session goes on and the analysis can be tried again.
C1_FailedReceiptContributesNothing ==
    [][ (last'.op = "analyze" /\ last'.status \in Failures)
        => /\ all_receipts_items' = all_receipts_items
           /\ all_receipts_summary' = all_receipts_summary
           /\ uploaded_file' # NoFile
           /\ ~is_already_analyzed(all_receipts_summary', file_id(uploaded_file')) ]_vars

\* an analysis has raised while the ledger already held a receipt
C1_Witness ==
    /\ last.op = "analyze"
    /\ last.status = "exception"
    /\ last.called
    /\ Len(all_receipts_items) = 1
    /\ Len(all_receipts_summary) = 1

\* the ids that uploads get
UploadIds == {file_id(f) : f \in {FileA, FileB}}

\* C2: no two summaries carry the same upload id, and an analysis asked for a
\* file whose id is already stored calls no extraction service and appends
\* nothing.
C2_DedupByFileId ==
    /\ [](\A i, j \in 1..Len(all_receipts_summary) :
            (i # j /\ all_receipts_summary[i].id \in UploadIds)
            => all_receipts_summary[i].id # all_receipts_summary[j].id)
    /\ [][ (/\ last'.op = "analyze"
            /\ uploaded_file # NoFile
            /\ uploaded_file' = uploaded_file
            /\ \E i \in 1..Len(all_receipts_summary) :
                  all_receipts_summary[i].id = file_id(uploaded_file))
           => /\ ~last'.called
              /\ all_receipts_items' = all_receipts_items
              /\ all_receipts_summary' = all_receipts_summary ]_vars

\* an analysis was asked for a file that is stored already
C2_Witness ==
    /\ last = Did("analyze", "already", FALSE)
    /\ uploaded_file # NoFile
    /\ \E i \in 1..Len(all_receipts_summary) :
          all_receipts_summary[i].id = file_id(uploaded_file)

\* C3: every step but a Reset leaves the stored item blocks and summaries as a
\* prefix of the new lists (nothing stored is changed or removed), and a Reset
\* leaves the item blocks, the summaries and the chat history empty.
C3_AppendOnlyUntilReset ==
    [][ IF last'.op = "reset"
        THEN /\ all_receipts_items' = <<>>
             /\ all_receipts_summary' = <<>>
             /\ chat_history' = <<>>
        ELSE /\ IsPrefix(all_receipts_items, all_receipts_items')
             /\ IsPrefix(all_receipts_summary, all_receipts_summary') ]_vars

\* a Reset of a session that had stored a manual or an imported entry
C3_Witness ==
    /\ last.op = "reset"
    /\ all_receipts_items = <<>>
    /\ all_receipts_summary = <<>>
    /\ chat_history = <<>>
    /\ now > 0

----------------------------------------------------------------------------
(* Properties of one analysis. *)

\* the columns of a row
GrossOf(r) == QMul(r.Unit_Price, r.Quantity)
AppliedOf(r) == r.Discount_Applied
NetOf(r) == r.Total_Spend
HomeOf(r) == r.KRW_Total_Spend

\* C4: for every receipt stored by app1 whose discount D is above 0 and whose
\* gross amounts (price x quantity) sum to G above 0, the allocated discounts
\* of its items sum to D, and the net amounts of its items, as computed and as
\* stored in the ledger, sum to G - D.
C4_DiscountConservation ==
    variant = "app1" =>
        \A i \in 1..Len(analyses) :
            LET a == analyses[i]
                D == safe_get_amount(a.receipt_data, "discount_amount")
                G == QSum(SeqMap(GrossOf, a.out.items_df))
            IN  (QPos(D) /\ QPos(G))
                => /\ QSum(SeqMap(AppliedOf, a.out.items_df)) = D
                   /\ QSum(SeqMap(NetOf, a.out.items_df)) = QSub(G, D)
                   /\ i <= Len(all_receipts_items)
                   /\ QSum(SeqMap(NetOf, all_receipts_items[i])) = QSub(G, D)

\* a stored receipt of two items whose shares of the discount are no whole numbers
C4_Witness ==
    /\ variant = "app1"
    /\ \E i \in 1..Len(analyses) :
          LET a == analyses[i]
          IN  /\ QPos(a.out.discount_amount)
              /\ Len(a.out.items_df) = 2
              /\ \A k \in 1..2 : /\ a.out.items_df[k].Discount_Applied.d # 1
                                 /\ QPos(a.out.items_df[k].Discount_Applied)

\* C5: with computedNet the sum of price x quantity less the discount, the
\* total that app1 goes on with, and stores as Original_Total, is computedNet
\* when computedNet differs from the reported total by more than 100 and is
\* above 0, and the reported total otherwise; items of 1000 with no discount
\* and a reported total of 1 give 1000.
C5_TotalCrossCheck ==
    variant = "app1" =>
        \A i \in 1..Len(analyses) :
            LET a == analyses[i]
                reported == safe_get_amount(a.receipt_data, "total_amount")
                computedNet == QSub(QSum(SeqMap(GrossOf, a.out.items_df)),
                                    safe_get_amount(a.receipt_data, "discount_amount"))
                difference == QAbs(QSub(computedNet, reported))
                replaced == QLess(QInt(100), difference) /\ QLess(QZero, computedNet)
            IN  /\ a.out.total_amount = IF replaced THEN computedNet ELSE reported
                /\ a.out.summary.Original_Total = a.out.total_amount
                /\ i <= Len(all_receipts_summary)
                /\ all_receipts_summary[i].Original_Total = a.out.total_amount
                /\ a.receipt_data = BreadReceipt(JNum(1))
                   => all_receipts_summary[i].Original_Total = QInt(1000)

\* the reported total 1 of items summing to 1000 was replaced
C5_Witness ==
    /\ variant = "app1"
    /\ \E i \in 1..Len(analyses) :
          /\ analyses[i].receipt_data = BreadReceipt(JNum(1))
          /\ all_receipts_summary[i].Original_Total = QInt(1000)

\* C6: the Total of every summary stored by an analysis of app1 is the sum of
\* the KRW Total Spend of its stored items plus Tip_KRW; Tax_KRW is the
\* converted tax and is no part of the Total.
C6_SummaryAssembly ==
    variant = "app1" =>
        \A i \in 1..Len(all_receipts_summary) :
            LET s == all_receipts_summary[i]
                a == analyses[i]
            IN  /\ i <= Len(all_receipts_items) /\ i <= Len(analyses)
                /\ s.Total = QAdd(QSum(SeqMap(HomeOf, all_receipts_items[i])), s.Tip_KRW)
                /\ s.Tip_KRW = convert_to_krw(safe_get_amount(a.receipt_data, "tip_amount"),
                                              s.Original_Currency, a.rates)
                /\ s.Tax_KRW = convert_to_krw(safe_get_amount(a.receipt_data, "tax_amount"),
                                              s.Original_Currency, a.rates)

\* a stored receipt in dollars with a tax and a tip
C6_Witness ==
    /\ variant = "app1"
    /\ \E i \in 1..Len(all_receipts_summary) :
          LET s == all_receipts_summary[i]
          IN  /\ QPos(s.Tax_KRW) /\ QPos(s.Tip_KRW)
              /\ s.Original_Currency = USD
              /\ s.Total # QAdd(s.Tax_KRW, QAdd(s.Tip_KRW,
                                   QSum(SeqMap(HomeOf, all_receipts_items[i]))))

\* a document whose items list is absent, null or empty
NoItems(doc) == ~(doc.items.k = "list" /\ doc.items.v # <<>>)

\* C7: an analysis of app1 that parsed a JSON object fails only when the
\* object's items list is absent or empty.
C7_FailsOnlyWithoutItems ==
    (/\ variant = "app1"
     /\ last.op = "analyze"
     /\ last.receipt_data.kind = "dict"
     /\ last.status \in Failures)
    => NoItems(last.receipt_data)

\* the keys of an item
KeysOf(item) == {item[k].key : k \in 1..Len(item)}

\* a document without currency_unit, date and store_location whose items
\* list is not empty and holds items with the four fields asked for
IsBare(doc) ==
    /\ doc.kind = "dict"
    /\ doc.currency_unit = JAbsent /\ doc.date = JAbsent /\ doc.store_location = JAbsent
    /\ ~NoItems(doc)
    /\ \A k \in 1..Len(doc.items.v) :
          /\ Len(doc.items.v[k]) = 4
          /\ KeysOf(doc.items.v[k]) = {"name", "price", "quantity", "category"}

IsIsoDate(t) ==
    /\ Len(t) = 10
    /\ \A k \in 1..10 : IF k \in {5, 8} THEN t[k] = "-" ELSE IsDigit(t[k])

C9_CategoriesCanonical ==
    variant = "app1" =>
    \A i \in 1..Len(all_receipts_items) :
        \A k \in 1..Len(all_receipts_items[i]) :
            IsCanonical(all_receipts_items[i][k].AI_Category)

----------------------------------------------------------------------------
(* Properties of repeated analyses. *)

\* a summary without the upload's id and file name
OfReceipt(s) ==
    IF variant = "app1"
    THEN <<s.Store, s.Total, s.Tax_KRW, s.Tip_KRW, s.Currency, s.Date, s.Location,
           s.Original_Total, s.Original_Currency, s.latitude, s.longitude>>
    ELSE <<s.Store, s.Total, s.Currency, s.Date>>

\* the i-th and the j-th stored receipt have the same rows and the same summary
SameResult(i, j) ==
    /\ all_receipts_items[i] = all_receipts_items[j]
    /\ OfReceipt(all_receipts_summary[i]) = OfReceipt(all_receipts_summary[j])

----------------------------------------------------------------------------
(* The impulse index of the chat tab and of the report tab. *)

IsImpulseRow(r) == get_psychological_category(r.AI_Category) = PSYCHOLOGICAL_CATEGORIES[3]

\* impulse_index = amount_ratio * np.sqrt(impulse_transactions / total_transactions),
\* kept as its two factors: the amount ratio and the ratio under the root
\* (both 0 for the index 0.0 of the else branch)
ImpulseIndex(total_spent, impulse_spending, total_transactions, impulse_transactions) ==
    [total_spent |-> total_spent, total_transactions |-> total_transactions,
     amount_ratio |-> IF QPos(total_spent) /\ total_transactions > 0
                      THEN QDiv(impulse_spending, total_spent) ELSE QZero,
     frequency_ratio |-> IF QPos(total_spent) /\ total_transactions > 0
                         THEN Q(impulse_transactions, total_transactions) ELSE QZero]

\* the index of the chat tab: the tips of the summaries join the total
Tab2ImpulseIndex(items, summaries) ==
    LET all_items_df == Concat(items)
        impulse_rows == SelectSeq(all_items_df, IsImpulseRow)
        tax_tip_only_total == QSum([i \in 1..Len(summaries) |-> summaries[i].Tip_KRW])
        total_spent == QAdd(QSum(SeqMap(KrwOf, all_items_df)),
                            IF QPos(tax_tip_only_total) THEN tax_tip_only_total ELSE QZero)
    IN  ImpulseIndex(total_spent, QSum(SeqMap(KrwOf, impulse_rows)),
                     Len(all_items_df), Len(impulse_rows))

\* the index of the report tab: the blocks that zip pairs with a summary
Tab3ImpulseIndex(items, summaries) ==
    LET paired == IF Len(summaries) < Len(items) THEN Len(summaries) ELSE Len(items)
        all_items_df == Concat(SubSeq(items, 1, paired))
        impulse_rows == SelectSeq(all_items_df, IsImpulseRow)
    IN  ImpulseIndex(QSum(SeqMap(KrwOf, all_items_df)), QSum(SeqMap(KrwOf, impulse_rows)),
                     Len(all_items_df), Len(impulse_rows))

\* the index is 0
IndexIsZero(ix) == ix.amount_ratio = QZero \/ ix.frequency_ratio = QZero

\* 0 <= a * sqrt(f) <= 1, for f >= 0: a is not negative (or f is 0) and
\* a * a * f <= 1
IndexInUnit(ix) ==
    /\ ix.frequency_ratio = QZero \/ ~QLess(ix.amount_ratio, QZero)
    /\ ~QLess(QInt(1), QMul(QMul(ix.amount_ratio, ix.amount_ratio), ix.frequency_ratio))

\* the indexes the two tabs compute on the ledger of the state
Indexes ==
    {Tab2ImpulseIndex(all_receipts_items, all_receipts_summary),
     Tab3ImpulseIndex(all_receipts_items, all_receipts_summary)}

ShowsTabs == variant = "app1" /\ all_receipts_items # <<>>

\* C15: in both tabs the impulse index is within [0, 1] when the total spend and
\* the number of transactions are above 0, and it is 0 otherwise
C15_ImpulseIndexBound ==
    ShowsTabs =>
        \A ix \in Indexes :
            IF QPos(ix.total_spent) /\ ix.total_transactions > 0
            THEN IndexInUnit(ix)
            ELSE IndexIsZero(ix)

\* C15 (on a ledger without negative amounts): the index is within [0, 1]
C15_BoundWithoutNegatives ==
    (ShowsTabs /\ \A i \in 1..Len(all_receipts_items) :
                    \A j \in 1..Len(all_receipts_items[i]) :
                        ~QLess(KrwOf(all_receipts_items[i][j]), QZero))
        => \A ix \in Indexes : IndexInUnit(ix)

\* coffee and bread: the index is strictly between 0 and 1 in both tabs
C15_Witness ==
    /\ ShowsTabs
    /\ \A ix \in Indexes : IndexInUnit(ix) /\ ~IndexIsZero(ix)
                            /\ ix.frequency_ratio = Q(1, 2)

----------------------------------------------------------------------------
(* The item rows of a stored upload. *)

DiscountOf(a) == safe_get_amount(a.receipt_data, "discount_amount")

GrossSumOf(a) == QSum(SeqMap(GrossOf, a.out.items_df))

\* the analyses of app1 that stored a receipt
StoredUploads == IF variant = "app1" THEN {analyses[i] : i \in 1..Len(analyses)} ELSE {}

RowsOf(a) == {a.out.items_df[k] : k \in 1..Len(a.out.items_df)}

\* C16: every item row of a stored upload has a quantity of at least 1, an
\* allocated discount of at least 0, and a net amount equal to its gross amount
\* (unit price x quantity) less its allocated discount
C16_LineItemInvariants ==
    \A a \in StoredUploads :
        \A r \in RowsOf(a) :
            /\ ~QLess(r.Quantity, QInt(1))
            /\ ~QLess(AppliedOf(r), QZero)
            /\ NetOf(r) = QSub(GrossOf(r), AppliedOf(r))

\* C16 (the part that holds): the net amount is the gross amount less the
\* allocated discount, in the frame and in the ledger, and a quantity that is no
\* number is 1
C16_NetIsGrossLessDiscount ==
    variant = "app1" =>
        \A i \in 1..Len(analyses) :
            /\ i <= Len(all_receipts_items)
            /\ Len(all_receipts_items[i]) = Len(analyses[i].out.items_df)
            /\ \A k \in 1..Len(analyses[i].out.items_df) :
                  LET r == analyses[i].out.items_df[k]
                      item == analyses[i].receipt_data.items.v[k]
                  IN  /\ NetOf(r) = QSub(GrossOf(r), AppliedOf(r))
                      /\ NetOf(all_receipts_items[i][k]) = NetOf(r)
                      /\ (Len(item) = 4 /\ to_numeric(item[3].val) = NaN)
                            => r.Quantity = QInt(1)

\* a stored row whose quantity was null and is 1
C16_Witness ==
    \E a \in StoredUploads :
        /\ Len(a.receipt_data.items.v) = 1
        /\ a.receipt_data.items.v[1][3].val = JNull
        /\ a.out.items_df[1].Quantity = QInt(1)

NoNegativeGross(a) == \A r \in RowsOf(a) : ~QLess(GrossOf(r), QZero)

\* C17: whenever 0 < D <= G, no item is allocated more than its own gross
\* amount, and every net amount is at least 0
C17_AllocationCap ==
    \A a \in StoredUploads :
        (QPos(DiscountOf(a)) /\ ~QLess(GrossSumOf(a), DiscountOf(a)))
            => \A r \in RowsOf(a) : /\ ~QLess(GrossOf(r), AppliedOf(r))
                                     /\ ~QLess(NetOf(r), QZero)

\* C17 (on receipts without a negative gross amount): the cap holds
C17_CapOnNonNegativeGross ==
    \A a \in StoredUploads :
        (QPos(DiscountOf(a)) /\ ~QLess(GrossSumOf(a), DiscountOf(a)) /\ NoNegativeGross(a))
            => \A r \in RowsOf(a) : /\ ~QLess(GrossOf(r), AppliedOf(r))
                                     /\ ~QLess(NetOf(r), QZero)

\* a discount equal to the sum of the items: every net amount is 0
C17_Witness ==
    \E a \in StoredUploads :
        /\ QPos(DiscountOf(a)) /\ GrossSumOf(a) = DiscountOf(a)
        /\ \A r \in RowsOf(a) : QPos(GrossOf(r)) /\ NetOf(r) = QZero

C19_NoAllocation ==
    variant = "app1" =>
        \A i \in 1..Len(analyses) :
            LET a == analyses[i]
            IN  (~QPos(DiscountOf(a)) \/ ~QPos(GrossSumOf(a)))
                => /\ a.out.discount_amount = DiscountOf(a)
                   /\ i <= Len(all_receipts_items)
                   /\ \A k \in 1..Len(a.out.items_df) :
                         /\ AppliedOf(a.out.items_df[k]) = QZero
                         /\ NetOf(a.out.items_df[k]) = GrossOf(a.out.items_df[k])
                         /\ NetOf(all_receipts_items[i][k]) = GrossOf(a.out.items_df[k])

\* a discount of -100 on pen and ink: kept negative, nothing allocated
C19_Witness ==
    \E a \in StoredUploads :
        /\ a.out.discount_amount = QInt(-100) /\ QPos(GrossSumOf(a))
        /\ \A r \in RowsOf(a) : AppliedOf(r) = QZero /\ NetOf(r) = GrossOf(r)

\* a discount of 100 on items that sum to -700: nothing allocated
C19_WitnessNoGross ==
    \E a \in StoredUploads :
        /\ QPos(DiscountOf(a)) /\ QLess(GrossSumOf(a), QZero)
        /\ \A r \in RowsOf(a) : AppliedOf(r) = QZero /\ NetOf(r) = GrossOf(r)

----------------------------------------------------------------------------
(* The dates of the summaries. *)

\* the raw date is a text that parses as YYYY-MM-DD
RawDateParses(receipt_data) ==
    IsText(receipt_data.date) /\ ParseDate(StrippedText(receipt_data.date)).ok

\* how far the normalization of the document gets; the rates, the day and the
\* place have no part in it
StatusOf(receipt_data) ==
    Normalize(receipt_data, FALLBACK_RATES, StartDate, SeoulCenter,
              [id |-> <<>>, name |-> <<>>]).status

IsValidDate(t) == ParseDate(t).ok /\ Strftime(ParseDate(t)) = t

\* C20: a raw date that does not parse as YYYY-MM-DD does not block the
\* normalization (the receipt gets as far as it does with a date that parses)
\* and is replaced by the current date, and every summary that app1 stores, by
\* upload, manual entry or CSV import, carries a valid YYYY-MM-DD date
C20_DateResolution ==
    variant = "app1" =>
        /\ (last.op = "analyze" /\ last.receipt_data.kind = "dict"
              /\ ~RawDateParses(last.receipt_data))
             => last.status = StatusOf([last.receipt_data EXCEPT !.date = JStr(D20240115)])
        /\ \A i \in 1..Len(analyses) :
              ~RawDateParses(analyses[i].receipt_data)
                 => analyses[i].out.summary.Date = Strftime(analyses[i].date_today)
        /\ \A i \in 1..Len(all_receipts_summary) : IsValidDate(all_receipts_summary[i].Date)

\* C20 (the part that holds): a raw date that is absent or a text that does
\* not parse is replaced by the current date, and every stored summary of app1
\* carries a valid YYYY-MM-DD date
C20_StoredDatesValid ==
    variant = "app1" =>
        /\ (last.op = "analyze" /\ last.receipt_data.kind = "dict"
              /\ IsText(last.receipt_data.date) /\ ~RawDateParses(last.receipt_data))
             => last.status = StatusOf([last.receipt_data EXCEPT !.date = JStr(D20240115)])
        /\ \A i \in 1..Len(analyses) :
              ~RawDateParses(analyses[i].receipt_data)
                 => analyses[i].out.summary.Date = Strftime(analyses[i].date_today)
        /\ \A i \in 1..Len(all_receipts_summary) : IsValidDate(all_receipts_summary[i].Date)

\* the 30th of February, stored under the date of the day after the start
C20_Witness ==
    /\ variant = "app1" /\ Len(analyses) = 1 /\ Len(all_receipts_summary) = 1
    /\ analyses[1].receipt_data.date = JStr(D20240230)
    /\ all_receipts_summary[1].Date = <<"2", "0", "2", "5", "-", "0", "1", "-", "0", "1">>

\* a manual entry and a CSV import in one ledger, both dated
C20_WitnessManualCsv ==
    /\ variant = "app1" /\ Len(all_receipts_summary) = 2
    /\ \E i, j \in 1..2 :
          /\ all_receipts_summary[i].filename = <<"Manual Entry">>
          /\ all_receipts_summary[j].filename = <<"Imported CSV">>
    /\ \A i \in 1..2 : IsValidDate(all_receipts_summary[i].Date)

----------------------------------------------------------------------------
(* The helpers of the conversion. *)

\* the tables get_exchange_rates can return
ReturnedTables == {get_exchange_rates(api) : api \in RateApis}

Converted == call.fn = "convert_to_krw"

\* the code convert_to_krw looks up, and the home rate it falls back to
CodeOf == Strip(Upper(call.currency))

HomeRateOf == RateGet(call.rates, KRW, QInt(1))

\* C11: converting an amount of the home currency, on any table the provider
\* can return (fetched or fallback), gives the amount itself
C11_CurrencyIdentity ==
    (Converted /\ call.currency = KRW /\ call.rates \in ReturnedTables)
        => call.result = call.amount

\* 5 KRW converted on the fetched table the run serves
C11_Witness ==
    /\ Converted /\ call.currency = KRW /\ call.served
    /\ call.rates # FALLBACK_RATES /\ call.rates \in ReturnedTables
    /\ call.amount = QInt(5) /\ call.result = QInt(5)

\* C12: a code that is no key of the table is converted at the home rate of
\* the table (1 on every table the provider returns, fetched tables that omit
\* EUR and JPY included), and a value is returned
C12_UnknownCurrencyFallback ==
    (Converted /\ CodeOf \notin DOMAIN call.rates /\ HomeRateOf # QZero)
        => /\ call.result = QMul(call.amount, HomeRateOf)
           /\ call.rates \in ReturnedTables => call.result = call.amount

\* 5 EUR converted on a fetched table that omits EUR
C12_Witness ==
    /\ Converted /\ call.currency = EUR /\ call.served
    /\ call.rates # FALLBACK_RATES /\ EUR \notin DOMAIN call.rates
    /\ call.amount = QInt(5) /\ call.result = QInt(5)

\* the rate convert_to_krw finds for the code
RateFound == RateGet(call.rates, CodeOf, HomeRateOf)

\* C13 (first half): a rate found to be 0 is replaced by the USD rate of the
\* table, or by 1300 when the table has none
C13_ZeroRateUsesUsd ==
    (Converted /\ RateFound = QZero)
        => call.result = QMul(call.amount, RateGet(call.rates, USD, QInt(1300)))

\* 5 EUR at a rate of 0 on a table without USD: 6500
C13_Witness ==
    /\ Converted /\ RateFound = QZero /\ USD \notin DOMAIN call.rates
    /\ call.amount = QInt(5) /\ call.result = QInt(6500)

\* C13: a rate found to be 0 is replaced by the USD rate of the table, or by
\* 1300 when the table has none, and the result is never 0 for an amount that
\* is not 0
C13_ZeroRateFallback ==
    (Converted /\ RateFound = QZero)
        => /\ call.result = QMul(call.amount, RateGet(call.rates, USD, QInt(1300)))
           /\ call.amount # QZero => call.result # QZero

\* the answers the claim calls a failure, and the one the division refuses
ApiFails(api) ==
    \/ api.kind # "json"
    \/ api.result # "success"
    \/ RateGet(api.conversion_rates, KRW, QZero) = QZero
    \/ RateGet(api.conversion_rates, USD, QInt(1)) = QZero

HasHomeAndUsd(rates) ==
    /\ KRW \in DOMAIN rates /\ rates[KRW] = QInt(1)
    /\ USD \in DOMAIN rates

\* C14: on any failure of the request or of the processing the provider
\* returns the fallback table, and every table it returns (the one the run
\* serves included) holds the KRW rate 1 and a USD rate
C14_RateProviderDegradation ==
    /\ HasHomeAndUsd(EXCHANGE_RATES)
    /\ call.fn = "get_exchange_rates"
         => /\ ApiFails(call.api) => call.result = FALLBACK_RATES
            /\ HasHomeAndUsd(call.result)

\* a body whose result is not 'success', answered by the fallback table
C14_Witness ==
    /\ call.fn = "get_exchange_rates"
    /\ call.api.kind = "json" /\ call.api.result = "error"
    /\ RateGet(call.api.conversion_rates, KRW, QZero) # QZero
    /\ call.result = FALLBACK_RATES /\ EXCHANGE_RATES = FALLBACK_RATES

\* a fetched table: no failure, the rates of the body turned into KRW
C14_WitnessFetched ==
    /\ call.fn = "get_exchange_rates" /\ ~ApiFails(call.api)
    /\ call.result # FALLBACK_RATES /\ EUR \in DOMAIN call.result
----------------------------------------------------------------------------
(* The ledger of a session. *)

\* C21: no two summaries of the ledger share an id: an upload is refused when
\* its file id is in the ledger, and a manual entry or a CSV import is given
\* the reading of the clock, which differs from run to run
C21_SummaryIdsUnique ==
    \A i, j \in 1..Len(all_receipts_summary) :
        i # j => all_receipts_summary[i].id # all_receipts_summary[j].id

\* two summaries that did not come from files: manual entries or imports
C21_Witness ==
    /\ Len(all_receipts_summary) = 2
    /\ \A i \in 1..2 : all_receipts_summary[i].filename
                            \in {<<"Manual Entry">>, <<"Imported CSV">>}
    /\ all_receipts_summary[1].id # all_receipts_summary[2].id

C22_WitnessChat ==
    last.op = "chat" /\ last.status = "api_failed" /\ last.calls = 1
----------------------------------------------------------------------------
(* The psychological classes. *)

Classes == {PSYCHOLOGICAL_CATEGORIES[i] : i \in 1..Len(PSYCHOLOGICAL_CATEGORIES)}

\* C23: get_psychological_category returns one of the four classes for every
\* text, every sub-category of ALL_CATEGORIES is a key of the table, and a text
\* that is no key is classed 'Habit / Impulse Loss'
C23_ClassificationTotal ==
    /\ Cardinality(Classes) = 4
    /\ ALL_CATEGORIES \subseteq DOMAIN SPENDING_NATURE
    /\ call.fn = "get_psychological_category"
         => /\ call.result \in Classes
            /\ ~HasNature(call.sub_category) => call.result = "Habit / Impulse Loss"

\* a text that is no key of the table, classed as impulse
C23_Witness ==
    /\ call.fn = "get_psychological_category"
    /\ call.sub_category = Word("Snacks")
    /\ call.result = "Habit / Impulse Loss"

\* a canonical sub-category of another class
C23_WitnessCanonical ==
    /\ call.fn = "get_psychological_category"
    /\ call.sub_category = Word("Rent & Mortgage")
    /\ call.result = "Fixed / Essential Cost"
\* C24: the item list and the summary list have the same length in every
\* state of a session, and a run appends to both or to neither
C24_ListsParallel ==
    /\ [](Len(all_receipts_items) = Len(all_receipts_summary))
    /\ [][Len(all_receipts_items') - Len(all_receipts_items)
            = Len(all_receipts_summary') - Len(all_receipts_summary)]_vars

\* C24 (the part that holds): every run but a CSV import that raises after its
\* block is appended adds to both lists or to neither, one element at most
C24_ParallelButCsvFailure ==
    [][\/ last'.op = "csv" /\ last'.status = "exception"
       \/ all_receipts_items' = <<>> /\ all_receipts_summary' = <<>>
       \/ /\ Len(all_receipts_items') - Len(all_receipts_items)
               = Len(all_receipts_summary') - Len(all_receipts_summary)
          /\ Len(all_receipts_items') - Len(all_receipts_items) \in {0, 1}]_vars

\* a block in the ledger that has no summary
C24_Unpaired == Len(all_receipts_items) > Len(all_receipts_summary)

----------------------------------------------------------------------------
(* The totals of the ledger: the summaries, the item rows and the          *)
(* per-category table of the analysis tab.                                 *)

\* groupby('AI Category') leaves out the rows whose key is None or NaN
IsNaKey(cell) == cell.k \in {"null", "absent"}

\* all_items_df_numeric.groupby('AI Category')['KRW Total Spend'].sum(): per
\* key the sum of its rows, before the Tax/VAT and Tip rows are added
category_summary(all_items_df_numeric) ==
    LET keys == {all_items_df_numeric[i].AI_Category : i \in 1..Len(all_items_df_numeric)}
        OfKey(k) == SelectSeq(all_items_df_numeric, LAMBDA r : r.AI_Category = k)
    IN  [k \in {c \in keys : ~IsNaKey(c)} |-> ColumnSum(SeqMap(KrwOf, OfKey(k)))]

\* the sum of the 'Amount' column of a per-category table of numbers
RECURSIVE AmountSum(_, _)
AmountSum(summary, keys) ==
    IF keys = {} THEN QZero
    ELSE LET k == CHOOSE c \in keys : TRUE
         IN  QAdd(summary[k].value, AmountSum(summary, keys \ {k}))

\* the sum of a column of the summaries
SummaryTotals == QSum([i \in 1..Len(all_receipts_summary) |-> all_receipts_summary[i].Total])
SummaryTips == QSum([i \in 1..Len(all_receipts_summary) |-> all_receipts_summary[i].Tip_KRW])

\* the sum of 'KRW Total Spend' over the rows of all blocks
LedgerItemSum == ColumnSum(SeqMap(KrwOf, Concat(all_receipts_items)))

\* the summaries' totals are the item rows plus the tips
TotalsConserved ==
    /\ ~LedgerItemSum.raises /\ IsNumber(LedgerItemSum.value)
    /\ \A i \in 1..Len(all_receipts_summary) : IsNumber(all_receipts_summary[i].Total)
    /\ SummaryTotals = QAdd(LedgerItemSum.value, SummaryTips)

\* the per-category table adds up to the item rows
CategoriesConserved ==
    LET summary == category_summary(Concat(all_receipts_items))
    IN  /\ ~LedgerItemSum.raises /\ IsNumber(LedgerItemSum.value)
        /\ \A k \in DOMAIN summary : ~summary[k].raises /\ IsNumber(summary[k].value)
        /\ AmountSum(summary, DOMAIN summary) = LedgerItemSum.value

\* a row of the ledger without a category
HasNaKey == \E i \in 1..Len(Concat(all_receipts_items)) :
                IsNaKey(Concat(all_receipts_items)[i].AI_Category)

\* C25: in every state the totals of the summaries are the item rows' home
\* amounts plus the tips, and the per-category table, before its Tax/VAT and
\* Tip rows, adds up to the item rows' home amounts
C25_TotalConservation == variant = "app1" => TotalsConserved /\ CategoriesConserved

\* C25 (the part that holds): the totals are conserved while every block has
\* its summary, and the per-category table adds up when, besides, every row
\* has a category
C25_ConservedOnPairedLedger ==
    variant = "app1" /\ Len(all_receipts_items) = Len(all_receipts_summary)
        => /\ TotalsConserved
           /\ ~HasNaKey => CategoriesConserved

\* a ledger of two entries and more than one category on which both sums agree
C25_Witness ==
    /\ variant = "app1"
    /\ Len(all_receipts_summary) >= 2
    /\ Cardinality(DOMAIN category_summary(Concat(all_receipts_items))) >= 2
    /\ C25_TotalConservation

\* a stored row without a category, which the per-category table leaves out
C25_Dropped == variant = "app1" /\ HasNaKey /\ TotalsConserved /\ ~CategoriesConserved

----------------------------------------------------------------------------
(* The chat of a session. *)

\* the run that led to the state got to the chat tab and rendered the chat
RendersChat ==
    /\ variant = "app1"
    /\ all_receipts_items # <<>>
    /\ ~Tab1Raises(all_receipts_items, all_receipts_summary)

\* every message of the history was written about the summaries of the state
HistoryIsCurrent ==
    \A i \in 1..Len(chat_history) : chat_history[i].about = Ids(all_receipts_summary)

\* C26: whenever the chat is rendered, every message of its history, shown or
\* sent, was written on the summary ids of that render, which are the stored
\* hash; what a chat run sends is such a history; and a step that carries a
\* message over into a rendered chat leaves the ledger as it was
C26_ChatFollowsData ==
    /\ [](RendersChat => HistoryIsCurrent /\ last_data_hash = DataHash(all_receipts_summary))
    /\ [][last'.op = "chat" => RendersChat' /\ HistoryIsCurrent']_vars
    /\ [][/\ RendersChat'
          /\ chat_history # <<>>
          /\ IsPrefix(chat_history, chat_history')
          => /\ all_receipts_items' = all_receipts_items
             /\ all_receipts_summary' = all_receipts_summary]_vars

\* a run that added a second entry has rendered the chat: whatever the history
\* was, it is now the greeting on the two ids
C26_Witness ==
    /\ RendersChat
    /\ Len(all_receipts_summary) = 2
    /\ last.op \in {"analyze", "manual", "csv"} /\ last.status = "ok"
    /\ chat_history = <<Message("assistant", "greeting", Ids(all_receipts_summary))>>

\* a prompt sent on a ledger of two entries
C26_WitnessSent ==
    /\ last.op = "chat"
    /\ Len(all_receipts_summary) = 2
    /\ \E i \in 1..Len(chat_history) : chat_history[i].role = "user"

----------------------------------------------------------------------------
(* The entries that come without a receipt. *)

\* the step is a run of the named handler: only midnight leaves last as it is
IsRunOf(op) == last'.op = op /\ today' = today

\* the step appends one block and one summary and keeps what was there
AppendsOneEach ==
    /\ Len(all_receipts_items') = Len(all_receipts_items) + 1
    /\ Len(all_receipts_summary') = Len(all_receipts_summary) + 1
    /\ IsPrefix(all_receipts_items, all_receipts_items')
    /\ IsPrefix(all_receipts_summary, all_receipts_summary')

LedgerUnchanged ==
    /\ all_receipts_items' = all_receipts_items
    /\ all_receipts_summary' = all_receipts_summary

\* the block and the summary a step appended
NewBlock == all_receipts_items'[Len(all_receipts_items')]
NewSummary == all_receipts_summary'[Len(all_receipts_summary')]

\* C27: a submitted form with an empty description or an amount that is not
\* above 0 is rejected and leaves the ledger as it was; any other form appends
\* one block of one row (quantity 1, 'Total Spend' the entered amount) and one
\* summary whose Total is convert_to_krw(amount, currency, rates), with no tax
\* and no tip
C27_ManualEntry ==
    [][IsRunOf("manual") =>
        LET form == last'.receipt_data.form
        IN  IF form.manual_description = <<>> \/ ~QPos(form.manual_amount)
            THEN last'.status = "rejected" /\ LedgerUnchanged
            ELSE /\ last'.status = "ok"
                 /\ AppendsOneEach
                 /\ Len(NewBlock) = 1
                 /\ NewBlock[1].Quantity = QInt(1)
                 /\ NewBlock[1].Total_Spend = form.manual_amount
                 /\ NewSummary.Total = convert_to_krw(form.manual_amount, form.manual_currency,
                                                      EXCHANGE_RATES)
                 /\ NewSummary.Tax_KRW = QZero
                 /\ NewSummary.Tip_KRW = QZero]_vars

\* an accepted entry in a foreign currency, converted at a fetched rate
C27_Witness ==
    /\ last.op = "manual" /\ last.status = "ok"
    /\ last.receipt_data.form.manual_currency = USD
    /\ all_receipts_summary[Len(all_receipts_summary)].Total = QInt(12 * 1400)

\* rejected forms: one without a description, one with the amount 0
C27_WitnessRejected ==
    /\ last.op = "manual" /\ last.status = "rejected"
    /\ last.receipt_data.form.manual_description = <<>>

\* a cell of a column that is a text
HasTextCell(rows) == \E i \in 1..Len(rows) : IsTextCell(rows[i].KRW_Total_Spend)

\* the sum of the numbers of a column
NumberSum(rows) ==
    QSum(SeqMap(LAMBDA r : IF IsNumber(r.KRW_Total_Spend) THEN r.KRW_Total_Spend ELSE QZero,
                rows))

\* a run of the CSV section on a file that lacks a required column leaves the
\* ledger as it was
RejectsShortFile ==
    IsRunOf("csv") /\ uploaded_csv_file'.readable
                   /\ ~(required_cols \subseteq uploaded_csv_file'.columns)
        => last'.status = "rejected" /\ LedgerUnchanged

\* a run of the CSV section on a file with the required columns appends its
\* rows and a summary of their sum, in KRW
ImportsValidFile ==
    /\ last'.status = "ok"
    /\ AppendsOneEach
    /\ NewBlock = uploaded_csv_file'.rows
    /\ NewSummary.Total = NumberSum(uploaded_csv_file'.rows)
    /\ NewSummary.Currency = KRW

\* the ledger grows by an import only in the run of a new upload
OneImportPerUpload ==
    Len(all_receipts_items') > Len(all_receipts_items) /\ last'.op = "csv"
        => uploaded_csv_file' # uploaded_csv_file /\ ~csv_load_triggered'

\* the CSV section does not run again: after every run the flag is down or the
\* uploader is empty
FlagCleared == ~(csv_load_triggered /\ uploaded_csv_file # NoCsv)

\* C28: a CSV file that lacks a required column is rejected and the ledger is
\* as before; a file with the required columns appends one block and one
\* summary whose Total is the sum of 'KRW Total Spend', in KRW; and an upload
\* is imported at most once, the flag being cleared
C28_CsvImport ==
    /\ [](FlagCleared)
    /\ [][RejectsShortFile]_vars
    /\ [][IsRunOf("csv") /\ uploaded_csv_file'.readable
                         /\ required_cols \subseteq uploaded_csv_file'.columns
             => ImportsValidFile]_vars
    /\ [][OneImportPerUpload]_vars

\* C28 (the part that holds): rejection, the single import, and the import of
\* a file whose 'KRW Total Spend' holds numbers and empty cells only
C28_ImportOfNumbers ==
    /\ [](FlagCleared)
    /\ [][RejectsShortFile]_vars
    /\ [][IsRunOf("csv") /\ uploaded_csv_file'.readable
                         /\ required_cols \subseteq uploaded_csv_file'.columns
                         /\ ~HasTextCell(uploaded_csv_file'.rows)
             => ImportsValidFile]_vars
    /\ [][OneImportPerUpload]_vars

\* an import of a file with an empty cell, and a rejected file
C28_Witness ==
    /\ last.op = "csv" /\ last.status = "ok"
    /\ uploaded_csv_file.name = <<"gaps.csv">>
    /\ all_receipts_summary[Len(all_receipts_summary)].Total = QInt(3000)

C28_WitnessRejected ==
    /\ last.op = "csv" /\ last.status = "rejected"
    /\ uploaded_csv_file.name = <<"short.csv">>

\* a summary whose Total is a text
C28_TextTotal ==
    \E i \in 1..Len(all_receipts_summary) : IsTextCell(all_receipts_summary[i].Total)

----------------------------------------------------------------------------
(* What the chat tab and the report tab say of one ledger. *)

\* the sign and the square of amount_ratio * sqrt(frequency_ratio)
IndexSign(ix) ==
    IF IndexIsZero(ix) THEN 0 ELSE IF QLess(ix.amount_ratio, QZero) THEN -1 ELSE 1

IndexSquare(ix) == QMul(QMul(ix.amount_ratio, ix.amount_ratio), ix.frequency_ratio)

\* two indexes are the same number
SameIndex(x, y) == IndexSign(x) = IndexSign(y) /\ IndexSquare(x) = IndexSquare(y)

\* the two tabs say the same total and the same index
SameReport ==
    LET chat == Tab2ImpulseIndex(all_receipts_items, all_receipts_summary)
        report == Tab3ImpulseIndex(all_receipts_items, all_receipts_summary)
    IN  chat.total_spent = report.total_spent /\ SameIndex(chat, report)

\* C29: on every ledger the two tabs are rendered for, the chat tab and the
\* report tab compute the same total spend and the same impulse index
C29_TabsAgree == RendersChat => SameReport

\* C29 (the part that holds): the tabs agree when the tips of the summaries do
\* not add up to more than 0
C29_TabsAgreeWithoutTips == RendersChat /\ ~QPos(SummaryTips) => SameReport

\* a ledger with impulse rows and no tip, on which the tabs agree on an index
\* that is not 0
C29_Witness ==
    /\ RendersChat
    /\ SameReport
    /\ ~IndexIsZero(Tab3ImpulseIndex(all_receipts_items, all_receipts_summary))

\* a ledger with a tip on which the totals differ, and one on which the
\* indexes differ
C29_TotalsDiffer ==
    /\ RendersChat
    /\ Tab2ImpulseIndex(all_receipts_items, all_receipts_summary).total_spent
         # Tab3ImpulseIndex(all_receipts_items, all_receipts_summary).total_spent

C29_IndexesDiffer ==
    /\ RendersChat
    /\ ~SameIndex(Tab2ImpulseIndex(all_receipts_items, all_receipts_summary),
                  Tab3ImpulseIndex(all_receipts_items, all_receipts_summary))

----------------------------------------------------------------------------
(* A chat turn. *)

\* the roles of the messages a step appended to the history
NewRoles ==
    [i \in 1..(Len(chat_history') - Len(chat_history)) |->
        chat_history'[Len(chat_history) + i].role]

\* C30: a chat run leaves both ledger lists as they were and keeps the history
\* it found; a run whose call succeeded appends the user's prompt and then the
\* assistant's reply, a run whose call failed appends the user's prompt only
C30_ChatTurn ==
    [][IsRunOf("chat") =>
        /\ LedgerUnchanged
        /\ IsPrefix(chat_history, chat_history')
        /\ NewRoles = IF last'.status = "ok" THEN <<"user", "assistant">> ELSE <<"user">>]_vars

\* after a failed call and another prompt the history holds two user messages
\* in a row
C30_Witness ==
    /\ last.op = "chat"
    /\ \E i \in 1..(Len(chat_history) - 1) :
          chat_history[i].role = "user" /\ chat_history[i + 1].role = "user"

\* a turn that succeeded: the history ends with the prompt and the reply
C30_WitnessAnswered ==
    /\ last.op = "chat" /\ last.status = "ok"
    /\ Len(chat_history) >= 3
    /\ chat_history[Len(chat_history) - 1].role = "user"
    /\ chat_history[Len(chat_history)].role = "assistant"

============================================================================
